---------------------------- MODULE Spec2Model ----------------------------
(***************************************************************************)
(* A model of the kubelet security scanner of k8s-kubelet-check-slack:     *)
(*   - the version comparator  (KubeletScanner._compare_versions),         *)
(*   - the endpoint probe      (KubeletScanner._test_kubelet_port /        *)
(*                              _test_kubelet_endpoint),                   *)
(*   - the node inspector      (KubeletScanner._scan_node and the          *)
(*                              functions it calls),                       *)
(*   - the cluster scanner     (KubeletScanner.scan_kubelet_config).       *)
(*                                                                         *)
(* Python values are modelled as follows.  A str is a sequence of          *)
(* one-character strings where the code looks inside it (versions), and a  *)
(* sequence of text fragments where it only formats it (descriptions).     *)
(* A dict is a function (a record); d.get(k) is Get/GetBool below.  An     *)
(* optional value is None (the empty sequence) or Some(x) (a one-element   *)
(* sequence).                                                              *)
(***************************************************************************)
EXTENDS Integers, Sequences, FiniteSets, TLC

VARIABLES
    \* --- cluster scanner (scan_kubelet_config) ---
    pc,          \* position in scan_kubelet_config
    available,   \* KUBERNETES_AVAILABLE and self.v1
    inventory,   \* nodes.items returned by list_node()
    idx,         \* index of the next node of the for loop
    results,     \* the results dict
    responses,   \* what the three requests of each inspected node met, None if not probed
    \* --- node inspector (_scan_node), one node ---
    ipc,         \* position in _scan_node
    node,        \* the node being inspected
    node_info,   \* the node_info dict
    port_checks, \* the port_checks dict local to _check_kubelet_ports
    requests,    \* the requests issued so far, in order
    \* --- version comparator (_compare_versions) ---
    cpc,         \* position of the comparison
    seg1, seg2,  \* the segment lists the two version strings were written from
    v1, v2,      \* the two version strings
    cmp,         \* the value returned
    \* --- version check (_check_version_vulnerabilities and the version row) ---
    vpc,         \* position of the version check
    vprefix,     \* the characters written before the version
    vbody,       \* the version after the prefix
    vsegs,       \* the segment list vbody was written from, None if malformed
    vtext,       \* node_info['kubelet_version']: vprefix followed by vbody
    vulns,       \* node_info['version_vulnerabilities'], None if not set
    vrow,        \* what the version row of _compile_issues contributes
    vcmps,       \* _compare_versions of the version and each threshold, both ways
    \* --- analysis and report (analyze_results, send_kubelet_report) ---
    rpc,            \* position in run_scan_mode after the scan
    scan_data,      \* the scan results handed to the analyzer and the notifier
    analysis,       \* the analysis dict
    openai_enabled, \* KubeletAnalyzer.openai_enabled
    ai_calls,       \* calls of client.chat.completions.create
    ai_outcome,     \* how the AI step ended, None when it did not run
    status_text,    \* the status text of the Slack blocks, None before formatting
    rich_messages,  \* reports handed to send_rich_message that were accepted
    exit_code,      \* what run_scan_mode returns, None before it returns
    \* --- sidecar (run_sidecar_mode, monitor_for_scan_output) ---
    spc,            \* position in run_sidecar_mode
    elapsed,        \* time.time() - start_time, in seconds
    max_wait_time,  \* the max_wait_time argument
    results_file,   \* what kubelet-scan-results.json holds, None while absent
    reports_sent,   \* calls of send_kubelet_report that sent the report
    polls,          \* times the file was looked for
    monitor_result, \* what monitor_for_scan_output returned
    sidecar_exit    \* what run_sidecar_mode returns, None before it returns

vars == <<pc, available, inventory, idx, results, responses,
          ipc, node, node_info, port_checks, requests,
          cpc, seg1, seg2, v1, v2, cmp,
          vpc, vprefix, vbody, vsegs, vtext, vulns, vrow, vcmps,
          rpc, scan_data, analysis, openai_enabled, ai_calls, ai_outcome, status_text,
          rich_messages, exit_code,
          spc, elapsed, max_wait_time, results_file, reports_sent, polls,
          monitor_result, sidecar_exit>>

scanVars == <<pc, available, inventory, idx, results, responses>>
inspectVars == <<ipc, node, node_info, port_checks, requests>>
compareVars == <<cpc, seg1, seg2, v1, v2, cmp>>
versionVars == <<vpc, vprefix, vbody, vsegs, vtext, vulns, vrow, vcmps>>
reportVars == <<rpc, scan_data, analysis, openai_enabled, ai_calls, ai_outcome,
               status_text,
                rich_messages, exit_code>>
sidecarVars == <<spc, elapsed, max_wait_time, results_file, reports_sent, polls,
                 monitor_result, sidecar_exit>>

-----------------------------------------------------------------------------
(* Python values *)

None == <<>>
Some(x) == <<x>>

\* d.get(k) used as a condition: falsy when the key is missing.
GetBool(d, k) == k \in DOMAIN d /\ d[k] = TRUE

\* d.get(k, default)
Get(d, k, default) == IF k \in DOMAIN d THEN d[k] ELSE default

-----------------------------------------------------------------------------
(* Strings as character sequences *)

Digits == <<"0", "1", "2", "3", "4", "5", "6", "7", "8", "9">>

IsDigit(c) == \E i \in 1..10 : Digits[i] = c

DigitVal(c) == (CHOOSE i \in 1..10 : Digits[i] = c) - 1

\* str(n) for n >= 0
RECURSIVE Decimal(_)
Decimal(n) ==
    IF n < 10 THEN <<Digits[n + 1]>>
    ELSE Decimal(n \div 10) \o <<Digits[(n % 10) + 1]>>

\* the value of a non-empty sequence of digits
RECURSIVE DigitsValue(_)
DigitsValue(s) ==
    IF Len(s) = 0 THEN 0
    ELSE 10 * DigitsValue(SubSeq(s, 1, Len(s) - 1)) + DigitVal(s[Len(s)])

\* int(x) of a str x: an optional sign followed by at least one digit;
\* anything else raises ValueError (ok = FALSE).
ParseInt(x) ==
    LET signed == Len(x) > 0 /\ x[1] \in {"+", "-"}
        body   == IF signed THEN Tail(x) ELSE x
        ok     == Len(body) > 0 /\ \A i \in 1..Len(body) : IsDigit(body[i])
        mag    == IF ok THEN DigitsValue(body) ELSE 0
    IN  [ok |-> ok, val |-> IF signed /\ x[1] = "-" THEN 0 - mag ELSE mag]

\* s.split('.')
RECURSIVE Split(_)
Split(s) ==
    IF \E i \in 1..Len(s) : s[i] = "."
    THEN LET i == CHOOSE j \in 1..Len(s) :
                      s[j] = "." /\ \A k \in 1..(j - 1) : s[k] # "."
         IN  <<SubSeq(s, 1, i - 1)>> \o Split(SubSeq(s, i + 1, Len(s)))
    ELSE <<s>>

\* a version check that leaves the prefix in place
LStripNothing(s) == s

\* s.lstrip('v'): every leading 'v' is removed
RECURSIVE LStripV(_)
LStripV(s) == IF Len(s) > 0 /\ s[1] = "v" THEN LStripV(Tail(s)) ELSE s

\* '.'.join(str(n) for n in segs): how a well-formed version is written
RECURSIVE FormatVersion(_)
FormatVersion(segs) ==
    IF Len(segs) = 0 THEN <<>>
    ELSE IF Len(segs) = 1 THEN Decimal(segs[1])
    ELSE Decimal(segs[1]) \o <<".">> \o FormatVersion(Tail(segs))

-----------------------------------------------------------------------------
(* Version comparator: KubeletScanner._compare_versions *)

\* parts.extend([0] * (max_len - len(parts)))
Pad(parts, max_len) ==
    [i \in 1..max_len |-> IF i <= Len(parts) THEN parts[i] ELSE 0]

Max(a, b) == IF a >= b THEN a ELSE b

\* the for loop of lines 434-440, from index i on
RECURSIVE CompareFrom(_, _, _, _)
CompareFrom(p1, p2, i, max_len) ==
    IF i > max_len THEN 0
    ELSE IF p1[i] < p2[i] THEN -1
    ELSE IF p1[i] > p2[i] THEN 1
    ELSE CompareFrom(p1, p2, i + 1, max_len)

\* the same loop stopping at the shorter list (no padding), then by length
CompareNoPad(a, b) ==
    LET s1 == Split(a)
        s2 == Split(b)
        n1 == [i \in 1..Len(s1) |-> ParseInt(s1[i]).val]
        n2 == [i \in 1..Len(s2) |-> ParseInt(s2[i]).val]
        m  == IF Len(n1) <= Len(n2) THEN Len(n1) ELSE Len(n2)
        c  == CompareFrom(n1, n2, 1, m)
    IN  IF c # 0 THEN c
        ELSE IF Len(n1) < Len(n2) THEN -1
        ELSE IF Len(n1) > Len(n2) THEN 1 ELSE 0

\* the same comparison reading a segment int() rejects as 0
CompareLenient(a, b) ==
    LET s1 == Split(a)
        s2 == Split(b)
        n1 == [i \in 1..Len(s1) |-> ParseInt(s1[i]).val]
        n2 == [i \in 1..Len(s2) |-> ParseInt(s2[i]).val]
        max_len == Max(Len(n1), Len(n2))
    IN  CompareFrom(Pad(n1, max_len), Pad(n2, max_len), 1, max_len)

compare_versions(a, b) ==
    LET s1 == Split(a)
        s2 == Split(b)
        raised == \/ \E i \in 1..Len(s1) : ~ParseInt(s1[i]).ok
                  \/ \E i \in 1..Len(s2) : ~ParseInt(s2[i]).ok
        n1 == [i \in 1..Len(s1) |-> ParseInt(s1[i]).val]
        n2 == [i \in 1..Len(s2) |-> ParseInt(s2[i]).val]
        max_len == Max(Len(n1), Len(n2))
    IN  IF raised THEN 0
        ELSE CompareFrom(Pad(n1, max_len), Pad(n2, max_len), 1, max_len)

-----------------------------------------------------------------------------
(* Endpoint probe: _test_kubelet_port and _test_kubelet_endpoint *)

DEFAULT_KUBELET_PORT == 10250
DEFAULT_READONLY_PORT == 10255

\* What requests.get does: it returns a response or raises.
Response(code) == [kind |-> "response", status_code |-> code]
Raises(exc) == [kind |-> "raises", exc |-> exc]

\* The classes of requests.exceptions an exception is an instance of:
\* SSLError and ConnectTimeout derive from ConnectionError, ConnectTimeout and
\* ReadTimeout from Timeout; ChunkedEncodingError stands for any other exception.
ExcClasses(exc) ==
    CASE exc = "SSLError"         -> {"SSLError", "ConnectionError", "Exception"}
      [] exc = "ConnectionError"  -> {"ConnectionError", "Exception"}
      [] exc = "ConnectTimeout"   -> {"ConnectionError", "Timeout", "Exception"}
      [] exc = "ReadTimeout"      -> {"Timeout", "Exception"}
      [] exc = "ChunkedEncodingError" -> {"Exception"}

ExcNames == {"SSLError", "ConnectionError", "ConnectTimeout", "ReadTimeout",
             "ChunkedEncodingError"}

\* str(e) of an exception no earlier handler took
ExcText(exc) == "Connection broken: IncompleteRead"

\* the probe with the ConnectionError handler marking the port accessible, as
\* the SSLError handler does
ProbeResultRefusedOpen(outcome, refused) ==
    LET result == [accessible |-> FALSE, anonymous_access |-> FALSE,
                   status_code |-> None, error |-> None]
    IN  IF outcome.kind = "response"
        THEN [result EXCEPT !.accessible = TRUE,
                            !.status_code = Some(outcome.status_code),
                            !.anonymous_access = (outcome.status_code = 200)]
        ELSE IF "SSLError" \in ExcClasses(outcome.exc)
        THEN [result EXCEPT !.accessible = TRUE,
                  !.error = Some("SSL verification failed (expected for kubelet)")]
        ELSE IF "ConnectionError" \in ExcClasses(outcome.exc)
        THEN [result EXCEPT !.accessible = TRUE, !.error = Some(refused)]
        ELSE IF "Timeout" \in ExcClasses(outcome.exc)
        THEN [result EXCEPT !.error = Some("Connection timeout")]
        ELSE [result EXCEPT !.error = Some(ExcText(outcome.exc))]

\* the probe taking every answer below 400 for anonymous access
ProbeResultBelow400(outcome, refused) ==
    LET result == [accessible |-> FALSE, anonymous_access |-> FALSE,
                   status_code |-> None, error |-> None]
    IN  IF outcome.kind = "response"
        THEN [result EXCEPT !.accessible = TRUE,
                            !.status_code = Some(outcome.status_code),
                            !.anonymous_access = (outcome.status_code < 400)]
        ELSE IF "SSLError" \in ExcClasses(outcome.exc)
        THEN [result EXCEPT !.accessible = TRUE,
                  !.error = Some("SSL verification failed (expected for kubelet)")]
        ELSE IF "ConnectionError" \in ExcClasses(outcome.exc)
        THEN [result EXCEPT !.error = Some(refused)]
        ELSE IF "Timeout" \in ExcClasses(outcome.exc)
        THEN [result EXCEPT !.error = Some("Connection timeout")]
        ELSE [result EXCEPT !.error = Some(ExcText(outcome.exc))]

\* the probe with the ConnectionError handler tried before the SSLError one
ProbeResultConnectionFirst(outcome, refused) ==
    LET result == [accessible |-> FALSE, anonymous_access |-> FALSE,
                   status_code |-> None, error |-> None]
    IN  IF outcome.kind = "response"
        THEN [result EXCEPT !.accessible = TRUE,
                            !.status_code = Some(outcome.status_code),
                            !.anonymous_access = (outcome.status_code = 200)]
        ELSE IF "ConnectionError" \in ExcClasses(outcome.exc)
        THEN [result EXCEPT !.error = Some(refused)]
        ELSE IF "SSLError" \in ExcClasses(outcome.exc)
        THEN [result EXCEPT !.accessible = TRUE,
                  !.error = Some("SSL verification failed (expected for kubelet)")]
        ELSE IF "Timeout" \in ExcClasses(outcome.exc)
        THEN [result EXCEPT !.error = Some("Connection timeout")]
        ELSE [result EXCEPT !.error = Some(ExcText(outcome.exc))]

\* try / except of lines 465-498 (port) and 322-353 (endpoint); refused is the
\* message of the ConnectionError handler, the one place the two differ.
ProbeResult(outcome, refused) ==
    LET result == [accessible |-> FALSE, anonymous_access |-> FALSE,
                   status_code |-> None, error |-> None]
    IN  IF outcome.kind = "response"
        THEN [result EXCEPT !.accessible = TRUE,
                            !.status_code = Some(outcome.status_code),
                            !.anonymous_access = (outcome.status_code = 200)]
        ELSE IF "SSLError" \in ExcClasses(outcome.exc)
        THEN [result EXCEPT !.accessible = TRUE,
                  !.error = Some("SSL verification failed (expected for kubelet)")]
        ELSE IF "ConnectionError" \in ExcClasses(outcome.exc)
        THEN [result EXCEPT !.error = Some(refused)]
        ELSE IF "Timeout" \in ExcClasses(outcome.exc)
        THEN [result EXCEPT !.error = Some("Connection timeout")]
        ELSE [result EXCEPT !.error = Some(ExcText(outcome.exc))]

test_kubelet_port(outcome) ==
    ProbeResult(outcome, "Connection refused or port closed")

test_kubelet_endpoint(outcome) ==
    ProbeResult(outcome, "Connection refused or endpoint not accessible")

\* dict.update
Update(d, u) ==
    [k \in (DOMAIN d) \cup (DOMAIN u) |-> IF k \in DOMAIN u THEN u[k] ELSE d[k]]

\* the port_checks dict of lines 251-263
PortChecksInit ==
    [default_port |-> [port |-> DEFAULT_KUBELET_PORT, accessible |-> FALSE,
                       anonymous_access |-> FALSE, error |-> None],
     readonly_port |-> [port |-> DEFAULT_READONLY_PORT, accessible |-> FALSE,
                        error |-> None]]

\* lines 265-267
AfterDefaultProbe(checks, outcome) ==
    [checks EXCEPT !.default_port = Update(@, test_kubelet_port(outcome))]

\* lines 269-271
AfterReadonlyProbe(checks, outcome) ==
    [checks EXCEPT !.readonly_port = Update(@, test_kubelet_port(outcome))]

check_kubelet_ports(default_outcome, readonly_outcome) ==
    AfterReadonlyProbe(AfterDefaultProbe(PortChecksInit, default_outcome),
                       readonly_outcome)

check_kubelet_endpoints(metrics_outcome) ==
    [metrics |->
        Update([endpoint |-> "/metrics", accessible |-> FALSE,
                anonymous_access |-> FALSE, status_code |-> None,
                error |-> None],
               test_kubelet_endpoint(metrics_outcome))]

-----------------------------------------------------------------------------
(* Version vulnerabilities: _check_version_vulnerabilities *)

\* critical_cves, in insertion order
critical_cves ==
    << [cve |-> "CVE-2023-5528", severity |-> "HIGH",
        affected_versions |-> << <<"<", "1", ".", "2", "8", ".", "0">> >>],
       [cve |-> "CVE-2023-5529", severity |-> "HIGH",
        affected_versions |-> << <<"<", "1", ".", "2", "7", ".", "4">> >>],
       [cve |-> "CVE-2023-3978", severity |-> "CRITICAL",
        affected_versions |-> << <<"<", "1", ".", "2", "7", ".", "3">> >>] >>

\* the same loop with the threshold itself counted as affected
RECURSIVE CveMatchesInclusive(_, _, _)
CveMatchesInclusive(version_num, entry, j) ==
    IF j > Len(entry.affected_versions) THEN <<>>
    ELSE LET affected == entry.affected_versions[j]
             hit == /\ Len(affected) > 0
                    /\ affected[1] = "<"
                    /\ compare_versions(version_num, LStripV(Tail(affected))) <= 0
         IN  (IF hit
              THEN <<[cve |-> entry.cve, severity |-> entry.severity,
                      affected_version |-> affected]>>
              ELSE <<>>)
             \o CveMatchesInclusive(version_num, entry, j + 1)

\* the entries one CVE contributes (inner loop of lines 393-403)
RECURSIVE CveMatches(_, _, _)
CveMatches(version_num, entry, j) ==
    IF j > Len(entry.affected_versions) THEN <<>>
    ELSE LET affected == entry.affected_versions[j]
             hit == /\ Len(affected) > 0
                    /\ affected[1] = "<"
                    /\ compare_versions(version_num, LStripV(Tail(affected))) < 0
         IN  (IF hit
              THEN <<[cve |-> entry.cve, severity |-> entry.severity,
                      affected_version |-> affected]>>
              ELSE <<>>)
             \o CveMatches(version_num, entry, j + 1)

\* the outer loop of lines 392-403
RECURSIVE KnownVulnerabilities(_, _)
KnownVulnerabilities(version_num, i) ==
    IF i > Len(critical_cves) THEN <<>>
    ELSE CveMatches(version_num, critical_cves[i], 1)
         \o KnownVulnerabilities(version_num, i + 1)

\* version is a non-empty str (the caller's guard of line 176)
check_version_vulnerabilities(version) ==
    LET version_num == LStripV(version)
        known == KnownVulnerabilities(version_num, 1)
        vulnerable == Len(known) > 0
    IN  IF Len(version_num) = 0
        THEN [version |-> version, known_vulnerabilities |-> <<>>,
              is_vulnerable |-> FALSE, recommendation |-> None,
              error |-> "Could not parse version"]
        ELSE [version |-> version, known_vulnerabilities |-> known,
              is_vulnerable |-> vulnerable,
              recommendation |->
                IF vulnerable
                THEN Some(<<"Upgrade kubelet to the latest patched version. Current version ">>
                          \o version \o <<" has known vulnerabilities.">>)
                ELSE Some(<<"Version ">> \o version
                          \o <<" appears to be secure, but always keep kubelet updated to the latest version.">>)]

-----------------------------------------------------------------------------
(* Node inspector: _compile_issues *)

\* str(x) of an optional int inside an f-string
StrOpt(x) == IF x = None THEN <<"None">> ELSE Decimal(x[1])

\* ', '.join(ids)
RECURSIVE Join(_)
Join(ids) ==
    IF Len(ids) = 0 THEN <<>>
    ELSE IF Len(ids) = 1 THEN <<ids[1]>>
    ELSE <<ids[1], ", ">> \o Join(Tail(ids))

\* an issue graded WARNING when it is about the read-only port
IssueGraded(type, description, recommendation) ==
    [severity |-> IF type = "readonly_port_enabled" THEN "WARNING" ELSE "CRITICAL",
     type |-> type, description |-> description,
     recommendation |-> recommendation]

\* the issue dicts of lines 520-525, 536-541, 552-557, 570-575, 593-598
Issue(type, description, recommendation) ==
    [severity |-> "CRITICAL", type |-> type, description |-> description,
     recommendation |-> recommendation]

Passed(check, description) ==
    [check |-> check, description |-> description, status |-> "PASSED"]

PortOf(port_check) ==
    IF "port" \in DOMAIN port_check THEN Some(port_check.port) ELSE None

\* the same rows with two independent ifs instead of if / elif
AnonymousRowNoElif(default_port) ==
    [issues |-> IF GetBool(default_port, "anonymous_access")
                THEN <<Issue("anonymous_access_enabled",
                       <<"Anonymous", " authentication enabled on kubelet port ">>
                       \o StrOpt(PortOf(default_port))
                       \o <<". Port is accessible without authentication.">>,
                       Some(<<"Disable anonymous authentication by setting --anonymous-auth=false in kubelet configuration">>))>>
                ELSE <<>>,
     passed |-> IF GetBool(default_port, "accessible")
                THEN <<Passed("authentication_required",
                       <<"Kubelet port ">> \o StrOpt(PortOf(default_port))
                       \o <<" requires authentication (anonymous access disabled)">>)>>
                ELSE <<>>]

\* lines 518-532
AnonymousRow(default_port) ==
    IF GetBool(default_port, "anonymous_access")
    THEN [issues |-> <<Issue("anonymous_access_enabled",
                 <<"Anonymous", " authentication enabled on kubelet port ">>
                 \o StrOpt(PortOf(default_port))
                 \o <<". Port is accessible without authentication.">>,
                 Some(<<"Disable anonymous authentication by setting --anonymous-auth=false in kubelet configuration">>))>>,
          passed |-> <<>>]
    ELSE IF GetBool(default_port, "accessible")
    THEN [issues |-> <<>>,
          passed |-> <<Passed("authentication_required",
                 <<"Kubelet port ">> \o StrOpt(PortOf(default_port))
                 \o <<" requires authentication (anonymous access disabled)">>)>>]
    ELSE [issues |-> <<>>, passed |-> <<>>]

\* the readonly row raising its issue only on an anonymous (200) answer
ReadonlyRowAnonymousOnly(readonly_port) ==
    IF GetBool(readonly_port, "anonymous_access")
    THEN [issues |-> <<Issue("readonly_port_enabled",
                 <<"Readonly", " port ">> \o StrOpt(PortOf(readonly_port))
                 \o <<" is accessible. This port should be disabled (set --read-only-port=0)">>,
                 Some(<<"Disable readonly port by setting --read-only-port=0 in kubelet configuration">>))>>,
          passed |-> <<>>]
    ELSE [issues |-> <<>>,
          passed |-> <<Passed("readonly_port_disabled",
                 <<"Readonly", " port ">>
                 \o Decimal(Get(readonly_port, "port", DEFAULT_READONLY_PORT))
                 \o <<" is disabled (closed)">>)>>]

\* lines 534-548
ReadonlyRow(readonly_port) ==
    IF GetBool(readonly_port, "accessible")
    THEN [issues |-> <<Issue("readonly_port_enabled",
                 <<"Readonly", " port ">> \o StrOpt(PortOf(readonly_port))
                 \o <<" is accessible. This port should be disabled (set --read-only-port=0)">>,
                 Some(<<"Disable readonly port by setting --read-only-port=0 in kubelet configuration">>))>>,
          passed |-> <<>>]
    ELSE [issues |-> <<>>,
          passed |-> <<Passed("readonly_port_disabled",
                 <<"Readonly", " port ">>
                 \o Decimal(Get(readonly_port, "port", DEFAULT_READONLY_PORT))
                 \o <<" is disabled (closed)">>)>>]

\* the authorization row with a plain else in place of the elif of line 558
AuthorizationRowPlainElse(default_port) ==
    IF GetBool(default_port, "anonymous_access")
    THEN [issues |-> <<Issue("authorization_mode_alwaysallow",
                 <<"Authorization mode may be set to AlwaysAllow (inferred from ",
                   "anonymous", " access)">>,
                 Some(<<"Set --authorization-mode to Webhook or RBAC, not AlwaysAllow">>))>>,
          passed |-> <<>>]
    ELSE [issues |-> <<>>,
          passed |-> <<Passed("authorization_mode_secure",
                 <<"Authorization mode appears to be secure (not AlwaysAllow, authentication required)">>)>>]

\* lines 550-564
AuthorizationRow(default_port) ==
    IF GetBool(default_port, "anonymous_access")
    THEN [issues |-> <<Issue("authorization_mode_alwaysallow",
                 <<"Authorization mode may be set to AlwaysAllow (inferred from ",
                   "anonymous", " access)">>,
                 Some(<<"Set --authorization-mode to Webhook or RBAC, not AlwaysAllow">>))>>,
          passed |-> <<>>]
    ELSE IF GetBool(default_port, "accessible")
            /\ ~GetBool(default_port, "anonymous_access")
    THEN [issues |-> <<>>,
          passed |-> <<Passed("authorization_mode_secure",
                 <<"Authorization mode appears to be secure (not AlwaysAllow, authentication required)">>)>>]
    ELSE [issues |-> <<>>, passed |-> <<>>]

\* the metrics row without its last branch (endpoint not accessible)
MetricsRowNoLastBranch(endpoint_checks) ==
    LET metrics_check == Get(endpoint_checks, "metrics", <<>>)
    IN  IF GetBool(metrics_check, "anonymous_access")
        THEN [issues |-> <<Issue("metrics_endpoint_accessible",
                     <<"Metrics endpoint is accessible without authentication. This exposes sensitive metrics data.">>,
                     Some(<<"Restrict access to /metrics endpoint or ensure authentication is required">>))>>,
              passed |-> <<>>]
        ELSE IF GetBool(metrics_check, "accessible")
        THEN [issues |-> <<>>,
              passed |-> <<Passed("metrics_endpoint_secured",
                     <<"Metrics endpoint requires authentication (not accessible anonymously)">>)>>]
        ELSE [issues |-> <<>>, passed |-> <<>>]

\* lines 566-588
MetricsRow(endpoint_checks) ==
    LET metrics_check == Get(endpoint_checks, "metrics", <<>>)
    IN  IF GetBool(metrics_check, "anonymous_access")
        THEN [issues |-> <<Issue("metrics_endpoint_accessible",
                     <<"Metrics endpoint is accessible without authentication. This exposes sensitive metrics data.">>,
                     Some(<<"Restrict access to /metrics endpoint or ensure authentication is required">>))>>,
              passed |-> <<>>]
        ELSE IF GetBool(metrics_check, "accessible")
                /\ ~GetBool(metrics_check, "anonymous_access")
        THEN [issues |-> <<>>,
              passed |-> <<Passed("metrics_endpoint_secured",
                     <<"Metrics endpoint requires authentication (not accessible anonymously)">>)>>]
        ELSE IF ~GetBool(metrics_check, "accessible")
        THEN [issues |-> <<>>,
              passed |-> <<Passed("metrics_endpoint_secured",
                     <<"Metrics endpoint is not accessible (properly secured)">>)>>]
        ELSE [issues |-> <<>>, passed |-> <<>>]

\* the version row with an if in place of the elif of line 599
VersionRowNoElif(version_vulns) ==
    LET known == Get(version_vulns, "known_vulnerabilities", <<>>)
        cve_list == Join([i \in 1..Len(known) |-> known[i].cve])
        secure == IF "version" \in DOMAIN version_vulns
                     /\ Len(version_vulns.version) > 0
                  THEN <<Passed("version_secure",
                     <<"Kubelet version ">> \o version_vulns.version
                     \o <<" appears to be secure (no known critical vulnerabilities)">>)>>
                  ELSE <<>>
    IN  IF GetBool(version_vulns, "is_vulnerable")
        THEN [issues |-> <<Issue("version_vulnerable",
                     <<"Kubelet version ">> \o version_vulns.version
                     \o <<" has known vulnerabilities: ">> \o cve_list,
                     Get(version_vulns, "recommendation",
                         Some(<<"Upgrade to the latest patched version">>)))>>,
              passed |-> secure]
        ELSE [issues |-> <<>>, passed |-> secure]

\* lines 590-605
VersionRow(version_vulns) ==
    LET known == Get(version_vulns, "known_vulnerabilities", <<>>)
        cve_list == Join([i \in 1..Len(known) |-> known[i].cve])
    IN  IF GetBool(version_vulns, "is_vulnerable")
        THEN [issues |-> <<Issue("version_vulnerable",
                     <<"Kubelet version ">> \o version_vulns.version
                     \o <<" has known vulnerabilities: ">> \o cve_list,
                     Get(version_vulns, "recommendation",
                         Some(<<"Upgrade to the latest patched version">>)))>>,
              passed |-> <<>>]
        ELSE IF "version" \in DOMAIN version_vulns
                /\ Len(version_vulns.version) > 0
        THEN [issues |-> <<>>,
              passed |-> <<Passed("version_secure",
                     <<"Kubelet version ">> \o version_vulns.version
                     \o <<" appears to be secure (no known critical vulnerabilities)">>)>>]
        ELSE [issues |-> <<>>, passed |-> <<>>]

\* the rows compiled with the version row first
CompileIssuesVersionFirst(info) ==
    LET checks == Get(info, "port_checks", <<>>)
        default_port == Get(checks, "default_port", <<>>)
        readonly_port == Get(checks, "readonly_port", <<>>)
        endpoint_checks == Get(info, "endpoint_checks", <<>>)
        version_vulns == Get(info, "version_vulnerabilities", <<>>)
        rows == << VersionRow(version_vulns), AnonymousRow(default_port),
                   ReadonlyRow(readonly_port), AuthorizationRow(default_port),
                   MetricsRow(endpoint_checks) >>
    IN  [issues |-> rows[1].issues \o rows[2].issues \o rows[3].issues
                    \o rows[4].issues \o rows[5].issues,
         passed_checks |-> rows[1].passed \o rows[2].passed \o rows[3].passed
                    \o rows[4].passed \o rows[5].passed]

\* lines 500-610
compile_issues(info) ==
    LET checks == Get(info, "port_checks", <<>>)
        default_port == Get(checks, "default_port", <<>>)
        readonly_port == Get(checks, "readonly_port", <<>>)
        endpoint_checks == Get(info, "endpoint_checks", <<>>)
        version_vulns == Get(info, "version_vulnerabilities", <<>>)
        rows == << AnonymousRow(default_port), ReadonlyRow(readonly_port),
                   AuthorizationRow(default_port), MetricsRow(endpoint_checks),
                   VersionRow(version_vulns) >>
    IN  [issues |-> rows[1].issues \o rows[2].issues \o rows[3].issues
                    \o rows[4].issues \o rows[5].issues,
         passed_checks |-> rows[1].passed \o rows[2].passed \o rows[3].passed
                    \o rows[4].passed \o rows[5].passed]

-----------------------------------------------------------------------------
(* Node inspector: _scan_node *)

\* A node of the inventory: its name and its status, which the API client
\* may leave unset (None); a status has the address list and node_info.
Node(name, status) == [name |-> name, status |-> status]

Status(addresses, info) == [addresses |-> addresses, node_info |-> info]

Address(type, address) == [type |-> type, address |-> address]

\* node.status.addresses of a node without status raises AttributeError
ScanNodeRaises(n) == n.status = None

\* the same loop taking an ExternalIP for the probe target as well
RECURSIVE ExtractAddressesExternalFallback(_, _, _)
ExtractAddressesExternalFallback(info, addresses, i) ==
    IF i > Len(addresses) THEN info
    ELSE LET a == addresses[i]
             next == IF a.type = "InternalIP"
                     THEN [info EXCEPT !.internal_ip = Some(a.address),
                                       !.ip = Some(a.address)]
                     ELSE IF a.type = "ExternalIP"
                     THEN [info EXCEPT !.external_ip = Some(a.address),
                                       !.ip = Some(a.address)]
                     ELSE info
         IN  ExtractAddressesExternalFallback(next, addresses, i + 1)

\* the loop of lines 157-162 from address i on
RECURSIVE ExtractAddresses(_, _, _)
ExtractAddresses(info, addresses, i) ==
    IF i > Len(addresses) THEN info
    ELSE LET a == addresses[i]
             next == IF a.type = "InternalIP"
                     THEN [info EXCEPT !.internal_ip = Some(a.address),
                                       !.ip = Some(a.address)]
                     ELSE IF a.type = "ExternalIP"
                     THEN [info EXCEPT !.external_ip = Some(a.address)]
                     ELSE info
         IN  ExtractAddresses(next, addresses, i + 1)

\* lines 186-202
extract_kubelet_version(n) ==
    IF n.status[1].node_info # None
    THEN n.status[1].node_info[1].kubelet_version
    ELSE None

\* lines 204-239
check_kubelet_config(n) ==
    [anonymous_auth |-> None, authorization_mode |-> None,
     readonly_port |-> None, source |-> "node_annotations"]

\* lines 143-168, for a node that has a status
BeginNodeInfo(n) ==
    LET fresh == [name |-> n.name, ip |-> None, internal_ip |-> None,
                  external_ip |-> None, kubelet_version |-> None,
                  issues |-> <<>>, passed_checks |-> <<>>,
                  kubelet_config |-> <<>>, port_checks |-> <<>>,
                  endpoint_checks |-> <<>>]
        addressed == ExtractAddresses(fresh, n.status[1].addresses, 1)
    IN  [addressed EXCEPT !.kubelet_version = extract_kubelet_version(n),
                          !.kubelet_config = check_kubelet_config(n)]

\* the conditions of lines 171 and 176
HasIp(info) == info.ip # None /\ info.ip[1] # ""
HasVersion(info) == info.kubelet_version # None /\ Len(info.kubelet_version[1]) > 0

\* lines 175-177
WithVersion(info) ==
    IF HasVersion(info)
    THEN Update(info, [version_vulnerabilities |->
                          check_version_vulnerabilities(info.kubelet_version[1])])
    ELSE info

\* lines 179-184
WithCompiled(info) ==
    LET compiled == compile_issues(info)
    IN  [info EXCEPT !.issues = compiled.issues,
                     !.passed_checks = compiled.passed_checks]

\* _scan_node of a node that has a status, with the outcomes of the three
\* requests (used only if the node has an internal address)
scan_node(n, default_outcome, readonly_outcome, metrics_outcome) ==
    LET begun == BeginNodeInfo(n)
        probed == IF HasIp(begun)
                  THEN [begun EXCEPT
                          !.port_checks =
                              check_kubelet_ports(default_outcome, readonly_outcome),
                          !.endpoint_checks =
                              check_kubelet_endpoints(metrics_outcome)]
                  ELSE begun
    IN  WithCompiled(WithVersion(probed))

-----------------------------------------------------------------------------
(* Cluster scanner: scan_kubelet_config *)

\* lines 65-75
InitialResults ==
    [scan_time |-> "utcnow",
     nodes |-> <<>>,
     summary |-> [total_nodes |-> 0, nodes_with_issues |-> 0,
                  critical_issues |-> <<>>, warnings |-> <<>>,
                  passed_checks |-> <<>>]]

\* results['error'] = ... of line 79
SetError(res, message) == Update(res, [error |-> message])

\* an except clause that computes the status as well, as after the loop
HandleExceptionHealthy(res, message) ==
    Update(res, [error |-> message,
                 status |-> IF Len(res.summary.critical_issues) > 0 THEN "CRITICAL"
                            ELSE IF Len(res.summary.warnings) > 0 THEN "WARNING"
                            ELSE "HEALTHY"])

\* an except clause that only logs
HandleExceptionSilently(res, message) == res

\* the except clauses of lines 124-129: the try block is left, the error is set
HandleException(res, message) == Update(res, [error |-> message])

\* the inner loop of lines 96-106 from issue i on
RECURSIVE FoldIssues(_, _, _)
FoldIssues(summary, info, i) ==
    IF i > Len(info.issues) THEN summary
    ELSE LET issue == info.issues[i]
             entry == [node |-> info.name, issue |-> issue.description]
             next == IF issue.severity = "CRITICAL"
                     THEN [summary EXCEPT !.critical_issues = Append(@, entry)]
                     ELSE IF issue.severity = "WARNING"
                     THEN [summary EXCEPT !.warnings = Append(@, entry)]
                     ELSE summary
         IN  FoldIssues(next, info, i + 1)

\* the loop of lines 109-114 from check i on
RECURSIVE FoldPassed(_, _, _)
FoldPassed(summary, info, i) ==
    IF i > Len(info.passed_checks) THEN summary
    ELSE LET check == info.passed_checks[i]
             entry == [node |-> info.name, check |-> check.check,
                       description |-> check.description]
         IN  FoldPassed([summary EXCEPT !.passed_checks = Append(@, entry)],
                        info, i + 1)

\* the counter raised once for every issue instead of once for the node
CountNodePerIssue(summary, info) ==
    [summary EXCEPT !.nodes_with_issues = @ + Len(info.issues)]

\* lines 94-95: one more node with issues
CountNode(summary, info) ==
    IF Len(info.issues) > 0
    THEN [summary EXCEPT !.nodes_with_issues = @ + 1]
    ELSE summary

\* the fold that keeps only the reports of nodes with issues
FoldNodesWithIssues(res, info) ==
    [res EXCEPT !.nodes = IF Len(info.issues) > 0 THEN Append(@, info) ELSE @,
                !.summary = FoldPassed(FoldIssues(CountNode(@, info), info, 1),
                                       info, 1)]

\* lines 91-114: append the node report and update the summary
Fold(res, info) ==
    [res EXCEPT !.nodes = Append(@, info),
                !.summary = FoldPassed(FoldIssues(CountNode(@, info), info, 1),
                                       info, 1)]

\* the status without the test for critical issues
OverallStatusWarningsOnly(summary) ==
    IF Len(summary.warnings) > 0 THEN "WARNING" ELSE "HEALTHY"

\* lines 116-122
OverallStatus(summary) ==
    IF Len(summary.critical_issues) > 0 THEN "CRITICAL"
    ELSE IF Len(summary.warnings) > 0 THEN "WARNING"
    ELSE "HEALTHY"

\* the name of the i-th node of the inventory
NodeName(i) == <<"node-">> \o Decimal(i)

-----------------------------------------------------------------------------
(* Bounds and inputs *)

MaxNodes == 2       \* nodes in an inventory
MaxSegs == 3        \* segments of a well-formed version

\* segment values of the well-formed versions compared
SegVals == {0, 1, 3, 27, 28}

SegLists == UNION {[1..k -> SegVals] : k \in 1..MaxSegs}

V_1_27_2 == <<"v", "1", ".", "2", "7", ".", "2">>
V_1_29_0 == <<"v", "1", ".", "2", "9", ".", "0">>

InternalOnly == <<Address("InternalIP", "10.0.0.1")>>
ExternalOnly == <<Address("ExternalIP", "203.0.113.1")>>

\* the nodes list_node() may return to a scan
ScanVersions == {None, Some([kubelet_version |-> Some(V_1_27_2)]),
                 Some([kubelet_version |-> Some(V_1_29_0)])}

ScanStatuses ==
    {None} \cup {Some(Status(a, v)) : a \in {<<>>, InternalOnly}, v \in ScanVersions}

Inventories ==
    UNION {{[i \in 1..k |-> Node(NodeName(i), st[i])] : st \in [1..k -> ScanStatuses]}
           : k \in 0..MaxNodes}

\* what the three requests of one node may meet during a scan
ScanDefaultOutcomes == {Response(200), Response(401), Raises("ConnectionError")}
ScanReadonlyOutcomes == {Response(401), Raises("ConnectionError")}
ScanMetricsOutcomes == {Response(200), Raises("ReadTimeout")}

-----------------------------------------------------------------------------
(* Cluster scanner: the steps of scan_kubelet_config *)

ScanInit ==
    /\ pc = "start"
    /\ available \in BOOLEAN
    /\ inventory = <<>>
    /\ idx = 0
    /\ results = InitialResults
    /\ responses = <<>>

ScanIdle ==
    /\ pc = "idle"
    /\ available = FALSE
    /\ inventory = <<>>
    /\ idx = 0
    /\ results = <<>>
    /\ responses = <<>>

\* lines 77-80
ClientUnavailable ==
    /\ pc = "start"
    /\ ~available
    /\ results' = SetError(results, <<"Kubernetes client not available">>)
    /\ pc' = "done"
    /\ UNCHANGED <<available, inventory, idx, responses>>
    /\ UNCHANGED <<inspectVars, compareVars, versionVars, reportVars, sidecarVars>>

\* lines 84-87: list_node() returns
ListNode ==
    /\ pc = "start"
    /\ available
    /\ \E items \in Inventories :
          /\ inventory' = items
          /\ results' = [results EXCEPT !.summary.total_nodes = Len(items)]
    /\ idx' = 1
    /\ pc' = "loop"
    /\ UNCHANGED <<available, responses>>
    /\ UNCHANGED <<inspectVars, compareVars, versionVars, reportVars, sidecarVars>>

\* lines 84 and 124-126: list_node() raises ApiException
ListNodeApiException ==
    /\ pc = "start"
    /\ available
    /\ results' = HandleException(results, <<"API error: ", "(403) Forbidden">>)
    /\ pc' = "done"
    /\ UNCHANGED <<available, inventory, idx, responses>>
    /\ UNCHANGED <<inspectVars, compareVars, versionVars, reportVars, sidecarVars>>

\* lines 84 and 127-129: list_node() raises another exception
ListNodeException ==
    /\ pc = "start"
    /\ available
    /\ results' = HandleException(results, <<"Error: ", "Max retries exceeded">>)
    /\ pc' = "done"
    /\ UNCHANGED <<available, inventory, idx, responses>>
    /\ UNCHANGED <<inspectVars, compareVars, versionVars, reportVars, sidecarVars>>

\* lines 89-114: one iteration of the for loop
ScanNode ==
    /\ pc = "loop"
    /\ idx <= Len(inventory)
    /\ ~ScanNodeRaises(inventory[idx])
    /\ \E d \in ScanDefaultOutcomes, r \in ScanReadonlyOutcomes,
          m \in ScanMetricsOutcomes :
          /\ results' = Fold(results, scan_node(inventory[idx], d, r, m))
          /\ responses' = Append(responses,
                                 IF HasIp(BeginNodeInfo(inventory[idx]))
                                 THEN Some(<<d, r, m>>) ELSE None)
    /\ idx' = idx + 1
    /\ UNCHANGED <<pc, available, inventory>>
    /\ UNCHANGED <<inspectVars, compareVars, versionVars, reportVars, sidecarVars>>

\* lines 90 and 127-129: _scan_node raises inside the loop
ScanNodeException ==
    /\ pc = "loop"
    /\ idx <= Len(inventory)
    /\ ScanNodeRaises(inventory[idx])
    /\ results' = HandleException(results,
            <<"Error: ", "'NoneType' object has no attribute 'addresses'">>)
    /\ pc' = "done"
    /\ UNCHANGED <<available, inventory, idx, responses>>
    /\ UNCHANGED <<inspectVars, compareVars, versionVars, reportVars, sidecarVars>>

\* lines 116-122, after the last node
ComputeStatus ==
    /\ pc = "loop"
    /\ idx > Len(inventory)
    /\ results' = Update(results, [status |-> OverallStatus(results.summary)])
    /\ pc' = "done"
    /\ UNCHANGED <<available, inventory, idx, responses>>
    /\ UNCHANGED <<inspectVars, compareVars, versionVars, reportVars, sidecarVars>>

-----------------------------------------------------------------------------
(* Node inspector: the steps of _scan_node on one node *)

V_1_27_3 == <<"1", ".", "2", "7", ".", "3">>
V_1_28 == <<"v", "1", ".", "2", "8">>
V_1_x == <<"v", "1", ".", "x">>
V_only == <<"v">>

\* node.status.node_info as the inventory may report it
InspectVersions ==
    {None, Some([kubelet_version |-> None])}
    \cup {Some([kubelet_version |-> Some(v)]) :
            v \in {V_1_27_2, V_1_29_0, V_1_27_3, V_1_28, V_1_x, V_only, <<>>}}

AddressLists == {<<>>, InternalOnly, ExternalOnly, ExternalOnly \o InternalOnly}

InspectNodes ==
    {Node(NodeName(1), None)}
    \cup {Node(NodeName(1), Some(Status(a, v))) :
            a \in AddressLists, v \in InspectVersions}

\* what one request may meet (a redirect is not followed: lines 470, 327)
ProbeOutcomes ==
    {Response(200), Response(301), Response(401)}
    \cup {Raises(e) : e \in ExcNames}

\* one requests.get: the url's port and path, and what it met
Request(port, path, outcome) ==
    [port |-> port, path |-> path, outcome |-> outcome]

InspectInit ==
    /\ ipc = "start"
    /\ node \in InspectNodes
    /\ node_info = <<>>
    /\ port_checks = <<>>
    /\ requests = <<>>

InspectIdle ==
    /\ ipc = "idle"
    /\ node = <<>>
    /\ node_info = <<>>
    /\ port_checks = <<>>
    /\ requests = <<>>

\* lines 143-168
InspectBegin ==
    /\ ipc = "start"
    /\ ~ScanNodeRaises(node)
    /\ node_info' = BeginNodeInfo(node)
    /\ ipc' = IF HasIp(node_info') THEN "default_port" ELSE "version"
    /\ UNCHANGED <<node, port_checks, requests>>
    /\ UNCHANGED <<scanVars, compareVars, versionVars, reportVars, sidecarVars>>

\* line 157 on a node without status: AttributeError leaves _scan_node
InspectRaises ==
    /\ ipc = "start"
    /\ ScanNodeRaises(node)
    /\ ipc' = "raised"
    /\ UNCHANGED <<node, node_info, port_checks, requests>>
    /\ UNCHANGED <<scanVars, compareVars, versionVars, reportVars, sidecarVars>>

\* the request to port 10250 with a failure ending the node's probes
ProbeDefaultPortAborting ==
    /\ ipc = "default_port"
    /\ \E o \in ProbeOutcomes :
          /\ port_checks' = AfterDefaultProbe(PortChecksInit, o)
          /\ requests' = Append(requests, Request(DEFAULT_KUBELET_PORT, "/healthz", o))
          /\ ipc' = IF o.kind = "raises" THEN "version" ELSE "readonly_port"
    /\ UNCHANGED <<node, node_info>>
    /\ UNCHANGED <<scanVars, compareVars, versionVars, reportVars, sidecarVars>>

\* lines 251-267: the request to port 10250
ProbeDefaultPort ==
    /\ ipc = "default_port"
    /\ \E o \in ProbeOutcomes :
          /\ port_checks' = AfterDefaultProbe(PortChecksInit, o)
          /\ requests' = Append(requests, Request(DEFAULT_KUBELET_PORT, "/healthz", o))
    /\ ipc' = "readonly_port"
    /\ UNCHANGED <<node, node_info>>
    /\ UNCHANGED <<scanVars, compareVars, versionVars, reportVars, sidecarVars>>

\* lines 269-273 and 172: the request to port 10255
ProbeReadonlyPort ==
    /\ ipc = "readonly_port"
    /\ \E o \in ProbeOutcomes :
          /\ port_checks' = AfterReadonlyProbe(port_checks, o)
          /\ requests' = Append(requests, Request(DEFAULT_READONLY_PORT, "/healthz", o))
    /\ node_info' = [node_info EXCEPT !.port_checks = port_checks']
    /\ ipc' = "metrics"
    /\ UNCHANGED node
    /\ UNCHANGED <<scanVars, compareVars, versionVars, reportVars, sidecarVars>>

\* lines 173 and 275-299: the request to /metrics on port 10250
ProbeMetrics ==
    /\ ipc = "metrics"
    /\ \E o \in ProbeOutcomes :
          /\ node_info' = [node_info EXCEPT
                              !.endpoint_checks = check_kubelet_endpoints(o)]
          /\ requests' = Append(requests, Request(DEFAULT_KUBELET_PORT, "/metrics", o))
    /\ ipc' = "version"
    /\ UNCHANGED <<node, port_checks>>
    /\ UNCHANGED <<scanVars, compareVars, versionVars, reportVars, sidecarVars>>

\* lines 175-177
CheckVersion ==
    /\ ipc = "version"
    /\ node_info' = WithVersion(node_info)
    /\ ipc' = "compile"
    /\ UNCHANGED <<node, port_checks, requests>>
    /\ UNCHANGED <<scanVars, compareVars, versionVars, reportVars, sidecarVars>>

\* lines 179-184
Compile ==
    /\ ipc = "compile"
    /\ node_info' = WithCompiled(node_info)
    /\ ipc' = "done"
    /\ UNCHANGED <<node, port_checks, requests>>
    /\ UNCHANGED <<scanVars, compareVars, versionVars, reportVars, sidecarVars>>

-----------------------------------------------------------------------------
(* Version comparator: one call of _compare_versions *)

CompareInit ==
    /\ cpc = "start"
    /\ seg1 \in SegLists
    /\ seg2 \in SegLists
    /\ v1 = FormatVersion(seg1)
    /\ v2 = FormatVersion(seg2)
    /\ cmp = None

CompareIdle ==
    /\ cpc = "idle"
    /\ seg1 = <<>>
    /\ seg2 = <<>>
    /\ v1 = <<>>
    /\ v2 = <<>>
    /\ cmp = None

Compare ==
    /\ cpc = "start"
    /\ cmp' = Some(compare_versions(v1, v2))
    /\ cpc' = "done"
    /\ UNCHANGED <<seg1, seg2, v1, v2>>
    /\ UNCHANGED <<scanVars, inspectVars, versionVars, reportVars, sidecarVars>>

-----------------------------------------------------------------------------
(* Version check: lines 175-177 and the version row of _compile_issues *)

\* what may stand before the version in node.status.node_info.kubelet_version
Prefixes == {<<>>, <<"v">>, <<"v", "v">>, <<"V">>, <<"-">>, <<"+">>}

\* versions with a segment int() rejects: "x", "1.x", "1..2", "1.27.",
\* "1.27a", "1.27.2-gke" and the empty string
MalformedBodies ==
    {<<"x">>, <<"1", ".", "x">>, <<"1", ".", ".", "2">>,
     <<"1", ".", "2", "7", ".">>, <<"1", ".", "2", "7", "a">>,
     <<"1", ".", "2", "7", ".", "2", "-", "g", "k", "e">>, <<>>}

\* the version a "<X" entry of the table compares with (line 396)
Threshold(affected) == LStripV(Tail(affected))

VersionInit ==
    /\ vpc = "start"
    /\ vprefix \in Prefixes
    /\ \/ \E segs \in SegLists : vsegs = Some(segs) /\ vbody = FormatVersion(segs)
       \/ vsegs = None /\ vbody \in MalformedBodies
    /\ vtext = vprefix \o vbody
    /\ vulns = None
    /\ vrow = <<>>
    /\ vcmps = <<>>

VersionIdle ==
    /\ vpc = "idle"
    /\ vprefix = <<>>
    /\ vbody = <<>>
    /\ vsegs = None
    /\ vtext = <<>>
    /\ vulns = None
    /\ vrow = <<>>
    /\ vcmps = <<>>

\* lines 175-177 and 590-605 for a node whose kubelet_version is vtext,
\* with the comparisons of lines 396-397 (and their converses)
CheckVersionVulnerabilities ==
    /\ vpc = "start"
    /\ vulns' = IF Len(vtext) > 0
                THEN Some(check_version_vulnerabilities(vtext))
                ELSE None
    /\ vrow' = VersionRow(IF vulns' = None THEN <<>> ELSE vulns'[1])
    /\ vcmps' = [i \in 1..Len(critical_cves) |->
                   LET x == Threshold(critical_cves[i].affected_versions[1])
                   IN  [to |-> compare_versions(LStripV(vtext), x),
                        from |-> compare_versions(x, LStripV(vtext))]]
    /\ vpc' = "done"
    /\ UNCHANGED <<vprefix, vbody, vsegs, vtext>>
    /\ UNCHANGED <<scanVars, inspectVars, compareVars, reportVars, sidecarVars>>

-----------------------------------------------------------------------------
(* Result analyzer: KubeletAnalyzer (analyzer.py) *)

\* issue.lower() of a description fragment: descriptions keep the words the
\* analyzer looks for in fragments of their own
Lower(fragment) ==
    CASE fragment = "Anonymous" -> "anonymous"
      [] fragment = "Readonly" -> "readonly"
      [] OTHER -> fragment

\* word in risk.get('issue', '').lower()
Mentions(risk, word) ==
    /\ "issue" \in DOMAIN risk
    /\ \E i \in 1..Len(risk.issue) : Lower(risk.issue[i]) = word

\* sum(1 for issue in issues if issue.get('severity') == severity)
CountSeverity(issues, severity) ==
    Cardinality({i \in 1..Len(issues) : Get(issues[i], "severity", None) = severity})

\* the node analysis that looks at critical issues only
AnalyzeNodeCriticalOnly(n) ==
    LET issues == Get(n, "issues", <<>>)
    IN  [name |-> Get(n, "name", None), ip |-> Get(n, "ip", None),
         risk_level |-> IF CountSeverity(issues, "CRITICAL") > 0 THEN "high" ELSE "low",
         issues |-> issues,
         port_checks |-> Get(n, "port_checks", <<>>)]

\* lines 73-100
analyze_node(n) ==
    LET issues == Get(n, "issues", <<>>)
        critical_count == CountSeverity(issues, "CRITICAL")
        warning_count == CountSeverity(issues, "WARNING")
        risk_level == IF critical_count > 0 THEN "high"
                      ELSE IF warning_count > 0 THEN "medium"
                      ELSE "low"
    IN  [name |-> Get(n, "name", None), ip |-> Get(n, "ip", None),
         risk_level |-> risk_level, issues |-> issues,
         port_checks |-> Get(n, "port_checks", <<>>)]

\* lines 41-48
NewAnalysis(scan_results) ==
    [overall_status |-> Get(scan_results, "status", "UNKNOWN"),
     critical_risks |-> Get(Get(scan_results, "summary", <<>>), "critical_issues", <<>>),
     warnings |-> Get(Get(scan_results, "summary", <<>>), "warnings", <<>>),
     recommendations |-> <<>>,
     summary |-> Get(scan_results, "summary", <<>>),
     node_analyses |-> <<>>]

ANONYMOUS_LINE == "Disable anonymous authentication on kubelet by setting --anonymous-auth=false"
READONLY_LINE == "Disable readonly port by setting --read-only-port=0 in kubelet configuration"
REVIEW_LINE == "Review and harden kubelet security configuration on all nodes"
EXPOSURE_LINE == "Ensure kubelet ports are not exposed to the internet"
ALL_CLEAR_LINE == "No critical issues found. Continue monitoring kubelet security."

\* the loops of lines 115-119 and 122-126 from risk i on
RECURSIVE LinesFor(_, _, _, _)
LinesFor(risks, word, line, i) ==
    IF i > Len(risks) THEN <<>>
    ELSE (IF Mentions(risks[i], word) THEN <<line>> ELSE <<>>)
         \o LinesFor(risks, word, line, i + 1)

\* the recommendations with the general lines put first
GenerateRecommendationsGeneralFirst(an) ==
    LET risks == Get(an, "critical_risks", <<>>)
        targeted == LinesFor(risks, "anonymous", ANONYMOUS_LINE, 1)
                    \o LinesFor(risks, "readonly", READONLY_LINE, 1)
        general == IF Len(risks) > 0 THEN <<REVIEW_LINE, EXPOSURE_LINE>> ELSE <<>>
        recommendations == general \o targeted
    IN  IF Len(recommendations) = 0 THEN <<ALL_CLEAR_LINE>> ELSE recommendations

\* lines 102-140
generate_recommendations(an) ==
    LET risks == Get(an, "critical_risks", <<>>)
        targeted == LinesFor(risks, "anonymous", ANONYMOUS_LINE, 1)
                    \o LinesFor(risks, "readonly", READONLY_LINE, 1)
        general == IF Len(risks) > 0 THEN <<REVIEW_LINE, EXPOSURE_LINE>> ELSE <<>>
        recommendations == targeted \o general
    IN  IF Len(recommendations) = 0 THEN <<ALL_CLEAR_LINE>> ELSE recommendations

\* what the narrative generation may end in: a narrative, or an exception of
\* the import or of the call (lines 153-176)
AiOutcomes == {"completed", "ImportError", "RateLimitError", "APIConnectionError"}

\* client.chat.completions.create is reached unless the import fails
AiCalls(outcome) == IF outcome = "ImportError" THEN 0 ELSE 1

\* lines 142-185: every exception is caught at 183
get_ai_insights(outcome) ==
    IF outcome = "completed"
    THEN Some([analysis |-> "narrative", model |-> "gpt-4"])
    ELSE None

\* the AI step without a try: a failure leaves analyze_results
AiStepPropagating(an, enabled, outcome) ==
    IF enabled /\ outcome # "completed"
    THEN [analysis |-> an, raised |-> TRUE, calls |-> AiCalls(outcome)]
    ELSE [analysis |-> Update(an, [ai_insights |->
                          IF enabled THEN get_ai_insights(outcome) ELSE None]),
          raised |-> FALSE,
          calls |-> IF enabled THEN AiCalls(outcome) ELSE 0]

\* lines 60-69
AiStep(an, enabled, outcome) ==
    IF enabled
    THEN [analysis |-> Update(an, [ai_insights |-> get_ai_insights(outcome)]),
          raised |-> FALSE, calls |-> AiCalls(outcome)]
    ELSE [analysis |-> Update(an, [ai_insights |-> None]),
          raised |-> FALSE, calls |-> 0]

-----------------------------------------------------------------------------
(* Slack report: SlackFormatter and SlackNotifier.send_kubelet_report *)

\* formatter.py lines 16-27
parse_kubelet_summary(data) ==
    [total_nodes |-> Get(Get(data, "summary", <<>>), "total_nodes", 0),
     nodes_with_issues |-> Get(Get(data, "summary", <<>>), "nodes_with_issues", 0),
     scan_time |-> Get(data, "scan_time", ""),
     status |-> Get(data, "status", "UNKNOWN"),
     nodes |-> Get(data, "nodes", <<>>)]

\* formatter.py lines 33-45: the status text of the report
StatusText(summary) ==
    LET status == Get(summary, "status", "UNKNOWN")
    IN  IF status = "CRITICAL" THEN "CRITICAL"
        ELSE IF status = "WARNING" THEN "WARNING"
        ELSE "HEALTHY"

\* what SlackClient.send_rich_message may do: return Slack's response or raise
SendOutcomes == {"response", "SlackApiError"}

ReportIdle ==
    /\ rpc = "idle"
    /\ scan_data = <<>>
    /\ analysis = <<>>
    /\ openai_enabled = FALSE
    /\ ai_calls = 0
    /\ ai_outcome = None
    /\ status_text = None
    /\ rich_messages = 0
    /\ exit_code = None

SidecarIdle ==
    /\ spc = "idle"
    /\ elapsed = 0
    /\ max_wait_time = 0
    /\ results_file = None
    /\ reports_sent = 0
    /\ polls = 0
    /\ monitor_result = None
    /\ sidecar_exit = None

-----------------------------------------------------------------------------
(* Specifications *)

\* one scan of a cluster
Init == ScanInit /\ InspectIdle /\ CompareIdle /\ VersionIdle /\ ReportIdle /\ SidecarIdle

Next ==
    \/ ClientUnavailable
    \/ ListNode
    \/ ListNodeApiException
    \/ ListNodeException
    \/ ScanNode
    \/ ScanNodeException
    \/ ComputeStatus

Spec == Init /\ [][Next]_vars

\* one inspection of a node
InitInspect == ScanIdle /\ InspectInit /\ CompareIdle /\ VersionIdle /\ ReportIdle /\ SidecarIdle

NextInspect ==
    \/ InspectBegin
    \/ InspectRaises
    \/ ProbeDefaultPort
    \/ ProbeReadonlyPort
    \/ ProbeMetrics
    \/ CheckVersion
    \/ Compile

SpecInspect == InitInspect /\ [][NextInspect]_vars

\* one comparison of two well-formed versions
InitCompare == ScanIdle /\ InspectIdle /\ CompareInit /\ VersionIdle /\ ReportIdle /\ SidecarIdle

NextCompare == Compare

SpecCompare == InitCompare /\ [][NextCompare]_vars

\* one version check of a node
InitVersion == ScanIdle /\ InspectIdle /\ CompareIdle /\ VersionInit /\ ReportIdle /\ SidecarIdle

NextVersion == CheckVersionVulnerabilities

SpecVersion == InitVersion /\ [][NextVersion]_vars

-----------------------------------------------------------------------------
(* Properties of the cluster scanner (checked under Spec) *)

Done == pc = "done"
HasStatus == "status" \in DOMAIN results
HasError == "error" \in DOMAIN results
StatusIs(st) == HasStatus /\ results.status = st
NoCritical == Len(results.summary.critical_issues) = 0
NoWarnings == Len(results.summary.warnings) = 0

\* the three equivalences between the status and the two issue lists
StatusMatchesLists ==
    /\ StatusIs("CRITICAL") <=> ~NoCritical
    /\ StatusIs("WARNING") <=> (NoCritical /\ ~NoWarnings)
    /\ StatusIs("HEALTHY") <=> (NoCritical /\ NoWarnings)

\* C1, as stated: in every report scan() returns, whatever the inventory
\* outcome, status is CRITICAL iff critical_issues is non-empty, WARNING iff
\* critical_issues is empty and warnings is not, HEALTHY iff both are empty.
C1_EveryReport == Done => StatusMatchesLists

\* C1, amended: the three equivalences hold in every report scan() returns
\* without a top-level error.
C1_ReportWithoutError == (Done /\ ~HasError) => StatusMatchesLists

C1_Witness == Done /\ ~HasError /\ StatusIs("CRITICAL") /\ Len(results.nodes) = 2

\* list_node() was never answered: the client is unavailable or the call raised
InventoryFailed == Done /\ idx = 0

\* C2: when the inventory collaborator fails, the report has error set, no
\* nodes, a zeroed summary with empty lists, and a status that is absent (or
\* UNKNOWN), never HEALTHY.
C2_InventoryFailure ==
    InventoryFailed =>
        /\ HasError
        /\ results.nodes = <<>>
        /\ results.summary.total_nodes = 0
        /\ results.summary.nodes_with_issues = 0
        /\ results.summary.critical_issues = <<>>
        /\ results.summary.warnings = <<>>
        /\ results.summary.passed_checks = <<>>
        /\ ~StatusIs("HEALTHY")
        /\ (~HasStatus \/ StatusIs("UNKNOWN"))

C2_Witness == InventoryFailed /\ available

\* the node at position i of the inventory has a report in results.nodes, and
\* the summary has an entry for each of its issues
Inspected(i) ==
    \E k \in 1..Len(results.nodes) :
        /\ results.nodes[k].name = inventory[i].name
        /\ \A n \in 1..Len(results.nodes[k].issues) :
              \E c \in 1..Len(results.summary.critical_issues) :
                  results.summary.critical_issues[c] =
                      [node |-> inventory[i].name,
                       issue |-> results.nodes[k].issues[n].description]

\* C3, as stated: if inspecting one node raises, the scan is not aborted:
\* every later node is still inspected and appended, and the overall status
\* is still computed.
C3_ScanContinues ==
    Done =>
        \A i \in 1..Len(inventory) :
            ScanNodeRaises(inventory[i]) =>
                /\ HasStatus
                /\ \A j \in (i + 1)..Len(inventory) :
                      ~ScanNodeRaises(inventory[j]) => Inspected(j)

\* C4: scan() always returns a report, and the report carries either a
\* computed status or a top-level error, never both and never neither.
C4_StatusXorError ==
    /\ pc \in {"start", "loop", "done"}
    /\ Done => (HasStatus <=> ~HasError)

C4_Witness == Done /\ HasError /\ ~HasStatus /\ Len(results.nodes) > 0

\* the reports of results.nodes that have at least one issue
NodesWithIssues ==
    {k \in 1..Len(results.nodes) : Len(results.nodes[k].issues) > 0}

\* C9: in every report scan() returns, summary.nodes_with_issues is the number
\* of node reports whose issues list is non-empty.
C9_NodesWithIssues ==
    Done => results.summary.nodes_with_issues = Cardinality(NodesWithIssues)

C9_Witness ==
    /\ Done
    /\ results.summary.nodes_with_issues = 1
    /\ Len(results.nodes) = 2
    /\ Len(results.nodes[1].issues) > 1

-----------------------------------------------------------------------------
(* Properties of the node inspector (checked under SpecInspect) *)

Inspection == ipc = "done"

\* the three requests were issued
Probed == Len(requests) = 3

IssueTypes == [i \in 1..Len(node_info.issues) |-> node_info.issues[i].type]
PassedTags == [i \in 1..Len(node_info.passed_checks) |-> node_info.passed_checks[i].check]

HasIssue(type) == \E i \in 1..Len(IssueTypes) : IssueTypes[i] = type
HasPassed(check) == \E i \in 1..Len(PassedTags) : PassedTags[i] = check

\* the default-port result of the node report
DefaultPort == node_info.port_checks.default_port

\* the default-port probe got an HTTP answer
Definitive == Probed /\ DefaultPort.accessible /\ DefaultPort.status_code # None

\* the default-port probe ended in an error, without a status code
Errored == Probed /\ DefaultPort.error # None /\ DefaultPort.status_code = None

\* C5: after a definitive default-port probe exactly one of the issue
\* anonymous_access_enabled and the passed check authentication_required is
\* in the node report.
C5_ExactlyOne ==
    (Inspection /\ Definitive) =>
        (HasIssue("anonymous_access_enabled") <=> ~HasPassed("authentication_required"))

C5_Witness ==
    /\ Inspection /\ Definitive
    /\ requests[1].outcome = Response(200)
    /\ HasIssue("anonymous_access_enabled")

\* C6, as stated: after a default-port probe that ended in an error without a
\* status code (TLS error, refused, timeout, other) neither the issue
\* anonymous_access_enabled nor the passed check authentication_required is
\* in the node report.
C6_NeitherOnError ==
    (Inspection /\ Errored) =>
        (~HasIssue("anonymous_access_enabled") /\ ~HasPassed("authentication_required"))

\* C6, amended: after a default-port probe that ended in connection refused,
\* a timeout or another transport error neither entry is in the node report;
\* after a TLS error the passed check authentication_required is in it and the
\* issue anonymous_access_enabled is not.
C6_NeitherUnlessTls ==
    (Inspection /\ Errored) =>
        /\ ~HasIssue("anonymous_access_enabled")
        /\ HasPassed("authentication_required")
              <=> (requests[1].outcome = Raises("SSLError"))

C6_Witness ==
    /\ Inspection /\ Errored
    /\ requests[1].outcome = Raises("ConnectionError")
    /\ ~HasPassed("authentication_required")

\* the version string the inventory reports for the node
ReportedVersion(v) ==
    /\ node.status # None
    /\ node.status[1].node_info = Some([kubelet_version |-> Some(v)])

\* the description of the version_vulnerable issue names the CVE
ListsCve(cve) ==
    \E i \in 1..Len(node_info.issues) :
        /\ node_info.issues[i].type = "version_vulnerable"
        /\ \E k \in 1..Len(node_info.issues[i].description) :
              node_info.issues[i].description[k] = cve

AllCritical ==
    \A i \in 1..Len(node_info.issues) : node_info.issues[i].severity = "CRITICAL"

\* C7's scenario: default port answers 200, readonly port refuses, v1.27.2
Scenario7 ==
    /\ Inspection /\ Probed
    /\ requests[1].outcome = Response(200)
    /\ requests[2].outcome = Raises("ConnectionError")
    /\ ReportedVersion(V_1_27_2)

\* C7, as stated: in the scenario the issues are exactly anonymous_access_enabled,
\* authorization_mode_alwaysallow, version_vulnerable (all CRITICAL, the last
\* listing CVE-2023-3978) and the passed checks exactly readonly_port_disabled,
\* whatever the metrics probe met.
C7_ScenarioAsStated ==
    Scenario7 =>
        /\ IssueTypes = <<"anonymous_access_enabled", "authorization_mode_alwaysallow",
                          "version_vulnerable">>
        /\ AllCritical
        /\ ListsCve("CVE-2023-3978")
        /\ PassedTags = <<"readonly_port_disabled">>

\* C7, amended: in the scenario the metrics row contributes too: when the
\* metrics probe answers 200 the issues are anonymous_access_enabled,
\* authorization_mode_alwaysallow, metrics_endpoint_accessible,
\* version_vulnerable and the passed checks readonly_port_disabled; otherwise
\* the issues are anonymous_access_enabled, authorization_mode_alwaysallow,
\* version_vulnerable and the passed checks readonly_port_disabled,
\* metrics_endpoint_secured.  All issues are CRITICAL and version_vulnerable
\* lists CVE-2023-3978.
C7_ScenarioWithMetrics ==
    Scenario7 =>
        /\ AllCritical
        /\ ListsCve("CVE-2023-3978")
        /\ IF requests[3].outcome = Response(200)
           THEN /\ IssueTypes = <<"anonymous_access_enabled",
                                  "authorization_mode_alwaysallow",
                                  "metrics_endpoint_accessible",
                                  "version_vulnerable">>
                /\ PassedTags = <<"readonly_port_disabled">>
           ELSE /\ IssueTypes = <<"anonymous_access_enabled",
                                  "authorization_mode_alwaysallow",
                                  "version_vulnerable">>
                /\ PassedTags = <<"readonly_port_disabled",
                                  "metrics_endpoint_secured">>

C7_Witness == Scenario7 /\ requests[3].outcome = Raises("ConnectionError")

\* C8's scenario: the three probes answer 401, v1.29.0
Scenario8 ==
    /\ Inspection /\ Probed
    /\ \A i \in 1..3 : requests[i].outcome = Response(401)
    /\ ReportedVersion(V_1_29_0)

\* C8, as stated: in the scenario there is no issue and the passed checks are
\* authentication_required, readonly_port_disabled, authorization_mode_secure,
\* metrics_endpoint_secured, version_secure, in that order.
C8_ScenarioAsStated ==
    Scenario8 =>
        /\ IssueTypes = <<>>
        /\ PassedTags = <<"authentication_required", "readonly_port_disabled",
                          "authorization_mode_secure", "metrics_endpoint_secured",
                          "version_secure">>

\* C8, amended: in the scenario the readonly port answered, so the one issue is
\* readonly_port_enabled (CRITICAL) and the passed checks are
\* authentication_required, authorization_mode_secure,
\* metrics_endpoint_secured, version_secure, in that order.
C8_ScenarioReadonlyOpen ==
    Scenario8 =>
        /\ IssueTypes = <<"readonly_port_enabled">>
        /\ AllCritical
        /\ PassedTags = <<"authentication_required", "authorization_mode_secure",
                          "metrics_endpoint_secured", "version_secure">>

C8_Witness == Scenario8 /\ HasPassed("version_secure")

-----------------------------------------------------------------------------
(* Properties of the version comparator (checked under SpecCompare) *)

\* segment i of a list right-padded with zeros
SegAt(segs, i) == IF i <= Len(segs) THEN segs[i] ELSE 0

\* lexicographic comparison of two segment lists after padding: the sign of
\* the difference at the first position where they differ
LexCompare(a, b) ==
    LET differ == {i \in 1..Max(Len(a), Len(b)) : SegAt(a, i) # SegAt(b, i)}
    IN  IF differ = {} THEN 0
        ELSE LET k == CHOOSE i \in differ : \A j \in differ : i <= j
             IN  IF SegAt(a, k) < SegAt(b, k) THEN -1 ELSE 1

\* the two comparisons the claim names
Compare_1_2_0_with_1_2 ==
    compare_versions(<<"1", ".", "2", ".", "0">>, <<"1", ".", "2">>)

Compare_1_27_3_with_1_28_0 ==
    compare_versions(<<"1", ".", "2", "7", ".", "3">>,
                     <<"1", ".", "2", "8", ".", "0">>)

\* C10: for well-formed dotted numeric versions compare(a, b) is in {-1, 0, 1}
\* and is the lexicographic comparison of the zero-padded segment lists; so
\* compare(v, v) = 0, compare("1.2.0", "1.2") = 0, compare("1.27.3", "1.28.0") < 0.
C10_Lexicographic ==
    /\ cpc = "done" =>
          /\ cmp[1] \in {-1, 0, 1}
          /\ cmp[1] = LexCompare(seg1, seg2)
          /\ (seg1 = seg2 => cmp[1] = 0)
    /\ Compare_1_2_0_with_1_2 = 0
    /\ Compare_1_27_3_with_1_28_0 < 0

C10_Witness ==
    /\ cpc = "done"
    /\ v1 = <<"1", ".", "2", "7", ".", "3">>
    /\ v2 = <<"1", ".", "2", "8", ".", "0">>
    /\ cmp = Some(-1)

-----------------------------------------------------------------------------
(* Version check of one node *)

VersionChecked == vpc = "done"

\* the version was written from a list of numbers
WellFormed == vsegs # None

\* the thresholds of the table of lines 377-381, as numbers
ThresholdSegs == << <<1, 28, 0>>, <<1, 27, 4>>, <<1, 27, 3>> >>

\* the table's CVE ids whose threshold is above segs, in table order
RECURSIVE MatchingCves(_, _)
MatchingCves(segs, i) ==
    IF i > Len(critical_cves) THEN <<>>
    ELSE (IF LexCompare(segs, ThresholdSegs[i]) < 0
          THEN <<critical_cves[i].cve>> ELSE <<>>)
         \o MatchingCves(segs, i + 1)

\* the CVE ids of known_vulnerabilities
ReportedCves ==
    LET known == vulns[1].known_vulnerabilities
    IN  [i \in 1..Len(known) |-> known[i].cve]

\* the verdict and the comparisons are those of the numbers in vsegs
SameAsUnprefixed ==
    /\ vulns # None
    /\ ReportedCves = MatchingCves(vsegs[1], 1)
    /\ vulns[1].is_vulnerable = (MatchingCves(vsegs[1], 1) # <<>>)
    /\ \A i \in 1..Len(critical_cves) :
          /\ vcmps[i].to = LexCompare(vsegs[1], ThresholdSegs[i])
          /\ vcmps[i].from = LexCompare(ThresholdSegs[i], vsegs[1])

\* C11 (as stated): a well-formed version behind any single non-digit prefix
\* character is compared and judged like the version without the prefix.
C11_AnyPrefix ==
    (VersionChecked /\ WellFormed /\ Len(vprefix) = 1) => SameAsUnprefixed

\* C11 (amended): a well-formed version behind a prefix made of the character
\* 'v' is compared and judged like the version without the prefix.
C11_PrefixV ==
    (/\ VersionChecked
     /\ WellFormed
     /\ Len(vprefix) >= 1
     /\ \A i \in 1..Len(vprefix) : vprefix[i] = "v")
    => SameAsUnprefixed

C11_Witness ==
    /\ VersionChecked
    /\ vprefix = <<"v">>
    /\ vsegs = Some(<<1, 27, 3>>)
    /\ vulns # None
    /\ vulns[1].is_vulnerable
    /\ ReportedCves = <<"CVE-2023-5528", "CVE-2023-5529">>

\* the version has a segment int() rejects: it was not written from numbers,
\* or a letter other than 'v' stands before it
MalformedVersion == vsegs = None \/ vprefix = <<"V">>

VersionIssueTypes == {vrow.issues[i].type : i \in 1..Len(vrow.issues)}
VersionPassedTags == {vrow.passed[i].check : i \in 1..Len(vrow.passed)}

\* C12: with a malformed segment on either side the comparison returns 0, and
\* a node with a malformed version has neither is_vulnerable set nor the issue
\* version_vulnerable.
C12_FailSafe ==
    (VersionChecked /\ MalformedVersion) =>
        /\ \A i \in 1..Len(critical_cves) :
              vcmps[i].to = 0 /\ vcmps[i].from = 0
        /\ vulns # None =>
              /\ ~vulns[1].is_vulnerable
              /\ vulns[1].known_vulnerabilities = <<>>
        /\ "version_vulnerable" \notin VersionIssueTypes

C12_Witness ==
    /\ VersionChecked
    /\ vtext = <<"v", "1", ".", "2", "7", ".", "2", "-", "g", "k", "e">>
    /\ vcmps[1].to = 0
    /\ vulns # None
    /\ ~vulns[1].is_vulnerable
    /\ "version_secure" \in VersionPassedTags

-----------------------------------------------------------------------------
(* Probe results in the node report (checked under SpecInspect) *)

\* the result the node report holds for the i-th request
ProbeRecord(i) ==
    IF i = 1 THEN node_info.port_checks.default_port
    ELSE IF i = 2 THEN node_info.port_checks.readonly_port
    ELSE node_info.endpoint_checks.metrics

\* the i-th request got an HTTP response
Answered(i) == requests[i].outcome.kind = "response"

\* C13: a probe that got an HTTP response is accessible, carries the status
\* code and no error, and is anonymous exactly when the code is 200; so a
\* probe is anonymous if and only if it got a response with status 200.
C13_ByStatusCode ==
    (Inspection /\ Probed) =>
        \A i \in 1..3 :
            /\ Answered(i) =>
                  /\ ProbeRecord(i).accessible
                  /\ ProbeRecord(i).status_code = Some(requests[i].outcome.status_code)
                  /\ ProbeRecord(i).anonymous_access
                        = (requests[i].outcome.status_code = 200)
                  /\ ProbeRecord(i).error = None
            /\ ProbeRecord(i).anonymous_access
                  <=> requests[i].outcome = Response(200)

C13_Witness ==
    /\ Inspection /\ Probed
    /\ requests[1].outcome = Response(301)
    /\ requests[2].outcome = Response(200)
    /\ requests[3].outcome = Response(401)
    /\ ~ProbeRecord(1).anonymous_access
    /\ ProbeRecord(1).status_code = Some(301)
    /\ ProbeRecord(2).anonymous_access
    /\ ProbeRecord(3).accessible

\* the i-th request ran into the 5-second timeout, connecting or reading
TimedOut(i) ==
    requests[i].outcome \in {Raises("ConnectTimeout"), Raises("ReadTimeout")}

\* C14: every probe that exceeds the timeout, while connecting or while
\* waiting for the response, is not accessible and carries the error
\* 'Connection timeout'.
C14_TimeoutError ==
    (Inspection /\ Probed) =>
        \A i \in 1..3 :
            TimedOut(i) =>
                /\ ~ProbeRecord(i).accessible
                /\ ProbeRecord(i).error = Some("Connection timeout")

\* C15: a probe that failed with a TLS error is accessible, not anonymous,
\* without status code and with an error; a probe that was refused or reset
\* is not accessible, not anonymous and has an error.
C15_TlsAndRefused ==
    (Inspection /\ Probed) =>
        \A i \in 1..3 :
            /\ requests[i].outcome = Raises("SSLError") =>
                  /\ ProbeRecord(i).accessible
                  /\ ~ProbeRecord(i).anonymous_access
                  /\ ProbeRecord(i).status_code = None
                  /\ ProbeRecord(i).error # None
            /\ requests[i].outcome = Raises("ConnectionError") =>
                  /\ ~ProbeRecord(i).accessible
                  /\ ~ProbeRecord(i).anonymous_access
                  /\ ProbeRecord(i).error # None

C15_Witness ==
    /\ Inspection /\ Probed
    /\ requests[1].outcome = Raises("SSLError")
    /\ requests[2].outcome = Raises("ConnectionError")
    /\ requests[3].outcome = Raises("SSLError")
    /\ ProbeRecord(1).accessible
    /\ ProbeRecord(1).error = Some("SSL verification failed (expected for kubelet)")
    /\ ~ProbeRecord(2).accessible
    /\ ProbeRecord(2).error = Some("Connection refused or port closed")
    /\ ProbeRecord(3).accessible

-----------------------------------------------------------------------------
(* Requests of one inspection (checked under SpecInspect) *)

\* the inventory reports an InternalIP address for the node
HasInternalAddress ==
    /\ node.status # None
    /\ \E i \in 1..Len(node.status[1].addresses) :
          node.status[1].addresses[i].type = "InternalIP"

\* the probes are over
PastProbes == ipc \in {"version", "compile", "done"}

ExpectedRequests ==
    <<[port |-> 10250, path |-> "/healthz"],
      [port |-> 10255, path |-> "/healthz"],
      [port |-> 10250, path |-> "/metrics"]>>

\* C16: the requests of an inspection are, in this order and once each, the
\* default port, the readonly port and the metrics path on the default port;
\* for a node with an internal address all three are issued whatever the
\* earlier ones met, and the inspection does not end in an exception.
C16_ThreeRequests ==
    /\ Len(requests) <= 3
    /\ \A i \in 1..Len(requests) :
          /\ requests[i].port = ExpectedRequests[i].port
          /\ requests[i].path = ExpectedRequests[i].path
    /\ HasInternalAddress =>
          /\ ipc # "raised"
          /\ PastProbes => Len(requests) = 3

C16_Witness ==
    /\ Inspection
    /\ HasInternalAddress
    /\ Len(requests) = 3
    /\ requests[1].outcome = Raises("ConnectionError")
    /\ requests[2].outcome = Raises("ReadTimeout")
    /\ requests[3].outcome = Raises("ChunkedEncodingError")
    /\ ProbeRecord(3).error # None

\* the inventory reports the node's status without an InternalIP address
NoInternalAddress == node.status # None /\ ~HasInternalAddress

\* C17: for a node without an internal address no request is issued, and the
\* node report's port and endpoint results are empty.
C17_NoProbeWithoutAddress ==
    NoInternalAddress =>
        /\ requests = <<>>
        /\ ipc # "start" =>
              /\ node_info.port_checks = <<>>
              /\ node_info.endpoint_checks = <<>>

C17_Witness ==
    /\ Inspection
    /\ node.status # None
    /\ node.status[1].addresses = ExternalOnly
    /\ node_info.external_ip = Some("203.0.113.1")
    /\ requests = <<>>
    /\ node_info.port_checks = <<>>

-----------------------------------------------------------------------------
(* Rows of the node report (checked under SpecInspect) *)

\* the issue and the passed check of each row of _compile_issues
Dimensions ==
    {<<"anonymous_access_enabled", "authentication_required">>,
     <<"readonly_port_enabled", "readonly_port_disabled">>,
     <<"authorization_mode_alwaysallow", "authorization_mode_secure">>,
     <<"metrics_endpoint_accessible", "metrics_endpoint_secured">>,
     <<"version_vulnerable", "version_secure">>}

AlwaysDecided ==
    {<<"readonly_port_enabled", "readonly_port_disabled">>,
     <<"metrics_endpoint_accessible", "metrics_endpoint_secured">>}

\* how many entries of the node report a row contributed
RowEntries(d) ==
    Cardinality({i \in 1..Len(IssueTypes) : IssueTypes[i] = d[1]})
    + Cardinality({i \in 1..Len(PassedTags) : PassedTags[i] = d[2]})

\* C18: no node report holds both the issue and the passed check of one
\* dimension, and every node report holds exactly one of the two for the
\* readonly port and for the metrics endpoint.
C18_OnePerDimension ==
    Inspection =>
        /\ \A d \in Dimensions :
              /\ ~(HasIssue(d[1]) /\ HasPassed(d[2]))
              /\ RowEntries(d) <= 1
        /\ \A d \in AlwaysDecided :
              /\ HasIssue(d[1]) <=> ~HasPassed(d[2])
              /\ RowEntries(d) = 1

C18_Witness ==
    /\ Inspection /\ Probed
    /\ requests[1].outcome = Response(401)
    /\ requests[2].outcome = Raises("SSLError")
    /\ requests[3].outcome = Raises("ConnectTimeout")
    /\ HasPassed("authentication_required")
    /\ HasIssue("readonly_port_enabled")
    /\ HasPassed("metrics_endpoint_secured")
    /\ HasIssue("version_vulnerable")
    /\ ~HasPassed("version_secure")

-----------------------------------------------------------------------------
(* Verdict of the version check (checked under SpecVersion) *)

\* the table entries whose threshold the comparison puts above the node's
\* version, in table order, from entry i on
RECURSIVE EntriesAbove(_)
EntriesAbove(i) ==
    IF i > Len(critical_cves) THEN <<>>
    ELSE (IF vcmps[i].to < 0
          THEN <<[cve |-> critical_cves[i].cve,
                  severity |-> critical_cves[i].severity,
                  affected_version |-> critical_cves[i].affected_versions[1]]>>
          ELSE <<>>)
         \o EntriesAbove(i + 1)

CveIds == {critical_cves[i].cve : i \in 1..Len(critical_cves)}

IsCveId(fragment) == fragment \in CveIds

\* the CVE ids a description names, in the order it names them
CvesNamed(description) == SelectSeq(description, IsCveId)

\* C19: the verdict is vulnerable exactly when the comparison puts the node's
\* version below some threshold of the table; known_vulnerabilities holds the
\* entries with such a threshold, all of them in table order; the issue
\* version_vulnerable names their CVE ids, and version_secure is recorded
\* instead when the version is not empty and no entry matches.
C19_VersionVerdict ==
    VersionChecked =>
        LET above == EntriesAbove(1)
            ids == [i \in 1..Len(above) |-> above[i].cve]
        IN  /\ vulns = None <=> Len(vtext) = 0
            /\ vulns # None =>
                  /\ vulns[1].is_vulnerable <=> above # <<>>
                  /\ vulns[1].known_vulnerabilities = above
            /\ (WellFormed /\ vprefix = <<>>) =>
                  \A i \in 1..Len(critical_cves) :
                      vcmps[i].to = LexCompare(vsegs[1], ThresholdSegs[i])
            /\ above # <<>> =>
                  /\ Len(vrow.issues) = 1
                  /\ vrow.issues[1].type = "version_vulnerable"
                  /\ CvesNamed(vrow.issues[1].description) = ids
                  /\ vrow.passed = <<>>
            /\ (above = <<>> /\ Len(vtext) > 0) =>
                  /\ vrow.issues = <<>>
                  /\ Len(vrow.passed) = 1
                  /\ vrow.passed[1].check = "version_secure"
            /\ Len(vtext) = 0 => (vrow.issues = <<>> /\ vrow.passed = <<>>)

C19_Witness ==
    /\ VersionChecked
    /\ vtext = <<"1", ".", "2", "7", ".", "3">>
    /\ vcmps[3].to = 0
    /\ vulns # None
    /\ Len(vulns[1].known_vulnerabilities) = 2
    /\ vulns[1].known_vulnerabilities[1].cve = "CVE-2023-5528"
    /\ vulns[1].known_vulnerabilities[2].cve = "CVE-2023-5529"
    /\ CvesNamed(vrow.issues[1].description) = <<"CVE-2023-5528", "CVE-2023-5529">>

-----------------------------------------------------------------------------
(* Order of the inventory (checked under Spec) *)

\* list_node() returned
Listed == Done /\ idx >= 1

\* the report of node n when its requests meet r (None: no request is made)
Inspect(n, r) ==
    IF r = None THEN scan_node(n, None, None, None)
    ELSE scan_node(n, r[1][1], r[1][2], r[1][3])

\* lines 89-129 on the inventory items from node i on, the requests of node k
\* meeting resp[k]
RECURSIVE ScanFrom(_, _, _, _)
ScanFrom(res, items, resp, i) ==
    IF i > Len(items)
    THEN Update(res, [status |-> OverallStatus(res.summary)])
    ELSE IF ScanNodeRaises(items[i])
    THEN HandleException(res,
            <<"Error: ", "'NoneType' object has no attribute 'addresses'">>)
    ELSE ScanFrom(Fold(res, Inspect(items[i], resp[i])), items, resp, i + 1)

\* the ScanReport of an inventory
ScanOf(items, resp) ==
    ScanFrom([InitialResults EXCEPT !.summary.total_nodes = Len(items)],
             items, resp, 1)

\* what the requests of a node may meet
ResponsesFor(n) ==
    IF ScanNodeRaises(n) \/ ~HasIp(BeginNodeInfo(n)) THEN {None}
    ELSE {Some(<<d, r, m>>) : d \in ScanDefaultOutcomes,
                              r \in ScanReadonlyOutcomes,
                              m \in ScanMetricsOutcomes}

\* the responses of the whole inventory that agree with those of this scan
AllResponses ==
    {resp \in [1..Len(inventory) -> UNION {ResponsesFor(inventory[k]) :
                                             k \in 1..Len(inventory)}] :
        /\ \A k \in 1..Len(responses) : resp[k] = responses[k]
        /\ \A k \in 1..Len(inventory) : resp[k] \in ResponsesFor(inventory[k])}

Permuted(seq, f) == [i \in 1..Len(seq) |-> seq[f[i]]]

Occurrences(seq, x) == Cardinality({i \in 1..Len(seq) : seq[i] = x})

SameMultiset(a, b) ==
    /\ Len(a) = Len(b)
    /\ \A i \in 1..Len(a) : Occurrences(a, a[i]) = Occurrences(b, a[i])

\* two ScanReports with the same aggregate content
SameAggregate(a, b) ==
    /\ ("status" \in DOMAIN a) <=> ("status" \in DOMAIN b)
    /\ "status" \in DOMAIN a => a.status = b.status
    /\ a.summary.total_nodes = b.summary.total_nodes
    /\ a.summary.nodes_with_issues = b.summary.nodes_with_issues
    /\ SameMultiset(a.summary.critical_issues, b.summary.critical_issues)
    /\ SameMultiset(a.summary.warnings, b.summary.warnings)
    /\ SameMultiset(a.summary.passed_checks, b.summary.passed_checks)

\* the summary entries of the node reports from report i on, node by node
RECURSIVE IssuesInOrder(_, _)
IssuesInOrder(reports, i) ==
    IF i > Len(reports) THEN <<>>
    ELSE [k \in 1..Len(reports[i].issues) |->
             [node |-> reports[i].name, issue |-> reports[i].issues[k].description]]
         \o IssuesInOrder(reports, i + 1)

RECURSIVE PassedInOrder(_, _)
PassedInOrder(reports, i) ==
    IF i > Len(reports) THEN <<>>
    ELSE [k \in 1..Len(reports[i].passed_checks) |->
             [node |-> reports[i].name,
              check |-> reports[i].passed_checks[k].check,
              description |-> reports[i].passed_checks[k].description]]
         \o PassedInOrder(reports, i + 1)

\* the lists of the report follow the inventory, node by node
FollowsInventory ==
    /\ Len(results.nodes) <= Len(inventory)
    /\ \A i \in 1..Len(results.nodes) : results.nodes[i].name = inventory[i].name
    /\ results.summary.critical_issues = IssuesInOrder(results.nodes, 1)
    /\ results.summary.passed_checks = PassedInOrder(results.nodes, 1)

\* C20: the scan of any permutation of the inventory, its nodes meeting the
\* same responses, reports the same status, total_nodes and nodes_with_issues
\* and the same multisets of critical issues, warnings and passed checks; and
\* the lists of a report follow its inventory, node by node.
C20_OrderIndependent ==
    Listed =>
        /\ FollowsInventory
        /\ \A resp \in AllResponses :
              /\ ScanOf(inventory, resp) = results
              /\ \A f \in Permutations(1..Len(inventory)) :
                    SameAggregate(results,
                                  ScanOf(Permuted(inventory, f), Permuted(resp, f)))

-----------------------------------------------------------------------------
(* Scan mode after the scan: analyze_results, then send_kubelet_report *)

\* the nodes of the inventories whose reports are analyzed, each with what
\* its requests meet: a node without status, a node without address, an open
\* node on v1.27.2 and a closed node on v1.29.0
ScanCases ==
    {[status |-> None, resp |-> None],
     [status |-> Some(Status(<<>>, None)), resp |-> None],
     [status |-> Some(Status(InternalOnly, Some([kubelet_version |-> Some(V_1_27_2)]))),
      resp |-> Some(<<Response(200), Response(401), Response(200)>>)],
     [status |-> Some(Status(InternalOnly, Some([kubelet_version |-> Some(V_1_29_0)]))),
      resp |-> Some(<<Response(401), Raises("ConnectionError"), Raises("ReadTimeout")>>)]}

CaseLists == UNION {[1..k -> ScanCases] : k \in 0..MaxNodes}

\* the reports scan_kubelet_config returns
ScannerReports ==
    {ScanOf([i \in 1..Len(c) |-> Node(NodeName(i), c[i].status)],
            [i \in 1..Len(c) |-> c[i].resp]) : c \in CaseLists}
    \cup {SetError(InitialResults, <<"Kubernetes client not available">>),
          HandleException(InitialResults, <<"API error: ", "(403) Forbidden">>)}

\* node reports with issues of severity WARNING, which the data model of
\* the ScanReport allows
OutdatedIssue ==
    [severity |-> "WARNING", type |-> "kubelet_outdated",
     description |-> <<"Kubelet is two minor versions behind the control plane">>,
     recommendation |-> Some(<<"Upgrade kubelet">>)]

OpenReadonlyIssue == ReadonlyRow([port |-> DEFAULT_READONLY_PORT, accessible |-> TRUE]).issues[1]

GivenIssues == {<<>>, <<OutdatedIssue>>, <<OpenReadonlyIssue, OutdatedIssue>>}

GivenNode(i, issues) ==
    [name |-> NodeName(i), ip |-> Some("10.0.0.1"), issues |-> issues,
     passed_checks |-> <<>>, port_checks |-> <<>>]

\* the ScanReport holding the node reports infos, from report i on
RECURSIVE ReportFrom(_, _, _)
ReportFrom(res, infos, i) ==
    IF i > Len(infos)
    THEN Update(res, [status |-> OverallStatus(res.summary)])
    ELSE ReportFrom(Fold(res, infos[i]), infos, i + 1)

\* reports as a results file may hold them
FileReports ==
    {ReportFrom([InitialResults EXCEPT !.summary.total_nodes = Len(g)],
                [i \in 1..Len(g) |-> GivenNode(i, g[i])], 1) :
        g \in UNION {[1..k -> GivenIssues] : k \in 1..MaxNodes}}

ReportInit ==
    /\ rpc = "analyze"
    /\ scan_data \in ScannerReports \cup FileReports
    /\ analysis = <<>>
    /\ openai_enabled \in BOOLEAN
    /\ ai_calls = 0
    /\ ai_outcome = None
    /\ status_text = None
    /\ rich_messages = 0
    /\ exit_code = None

\* analyzer.py lines 41-50
BeginAnalysis ==
    /\ rpc = "analyze"
    /\ analysis' = NewAnalysis(scan_data)
    /\ rpc' = "nodes"
    /\ UNCHANGED <<scan_data, openai_enabled, ai_calls, ai_outcome, status_text,
                   rich_messages, exit_code>>
    /\ UNCHANGED <<scanVars, inspectVars, compareVars, versionVars, sidecarVars>>

\* analyzer.py lines 53-55: one iteration of the loop
AnalyzeNode ==
    /\ rpc = "nodes"
    /\ Len(analysis.node_analyses) < Len(Get(scan_data, "nodes", <<>>))
    /\ analysis' = [analysis EXCEPT !.node_analyses =
                      Append(@, analyze_node(scan_data.nodes[Len(@) + 1]))]
    /\ UNCHANGED <<rpc, scan_data, openai_enabled, ai_calls, ai_outcome, status_text,
                   rich_messages, exit_code>>
    /\ UNCHANGED <<scanVars, inspectVars, compareVars, versionVars, sidecarVars>>

\* analyzer.py line 58
GenerateRecommendations ==
    /\ rpc = "nodes"
    /\ Len(analysis.node_analyses) = Len(Get(scan_data, "nodes", <<>>))
    /\ analysis' = [analysis EXCEPT !.recommendations = generate_recommendations(analysis)]
    /\ rpc' = "ai"
    /\ UNCHANGED <<scan_data, openai_enabled, ai_calls, ai_outcome, status_text,
                   rich_messages, exit_code>>
    /\ UNCHANGED <<scanVars, inspectVars, compareVars, versionVars, sidecarVars>>

\* analyzer.py lines 60-71; app.py lines 121-123 if the step raised
AiInsights ==
    /\ rpc = "ai"
    /\ \E outcome \in AiOutcomes :
          LET step == AiStep(analysis, openai_enabled, outcome)
          IN  /\ analysis' = step.analysis
              /\ ai_calls' = ai_calls + step.calls
              /\ ai_outcome' = IF openai_enabled THEN Some(outcome) ELSE None
              /\ rpc' = IF step.raised THEN "done" ELSE "format"
              /\ exit_code' = IF step.raised THEN Some(1) ELSE exit_code
    /\ UNCHANGED <<scan_data, openai_enabled, status_text, rich_messages>>
    /\ UNCHANGED <<scanVars, inspectVars, compareVars, versionVars, sidecarVars>>

\* notifier.py lines 48-54: the summary and the blocks
FormatReport ==
    /\ rpc = "format"
    /\ status_text' = Some(StatusText(parse_kubelet_summary(scan_data)))
    /\ rpc' = "send"
    /\ UNCHANGED <<scan_data, analysis, openai_enabled, ai_calls, ai_outcome,
                   rich_messages, exit_code>>
    /\ UNCHANGED <<scanVars, inspectVars, compareVars, versionVars, sidecarVars>>

\* notifier.py lines 56-92 and app.py lines 118-123: the report is sent, or
\* send_rich_message raises; a failure of the HTML report is only logged
SendReport ==
    /\ rpc = "send"
    /\ \E outcome \in SendOutcomes :
          /\ rich_messages' = IF outcome = "response" THEN rich_messages + 1
                              ELSE rich_messages
          /\ exit_code' = IF outcome = "response" THEN Some(0) ELSE Some(1)
    /\ rpc' = "done"
    /\ UNCHANGED <<scan_data, analysis, openai_enabled, ai_calls, ai_outcome,
                   status_text>>
    /\ UNCHANGED <<scanVars, inspectVars, compareVars, versionVars, sidecarVars>>

InitReport == ScanIdle /\ InspectIdle /\ CompareIdle /\ VersionIdle
              /\ ReportInit /\ SidecarIdle

NextReport ==
    \/ BeginAnalysis
    \/ AnalyzeNode
    \/ GenerateRecommendations
    \/ AiInsights
    \/ FormatReport
    \/ SendReport

SpecReport == InitReport /\ [][NextReport]_vars

-----------------------------------------------------------------------------
(* Properties of the analysis (checked under SpecReport) *)

\* the loop over the nodes is over
NodesAnalyzed == rpc \in {"ai", "format", "send", "done"}

\* analyze_results returned
Analyzed == rpc \in {"format", "send", "done"}

\* the risk level of a node with these issues
RiskOf(issues) ==
    IF \E i \in 1..Len(issues) : issues[i].severity = "CRITICAL" THEN "high"
    ELSE IF Len(issues) > 0 THEN "medium"
    ELSE "low"

\* C21: every node analysis carries the level of the node's own issues: high
\* with a CRITICAL issue, else medium with any issue, else low; two nodes with
\* the same issues get the same level whatever report they stand in.
C21_RiskLevel ==
    rpc # "analyze" =>
        /\ Len(analysis.node_analyses) <= Len(scan_data.nodes)
        /\ NodesAnalyzed => Len(analysis.node_analyses) = Len(scan_data.nodes)
        /\ \A i \in 1..Len(analysis.node_analyses) :
              /\ analysis.node_analyses[i].name = scan_data.nodes[i].name
              /\ analysis.node_analyses[i].risk_level = RiskOf(scan_data.nodes[i].issues)
              /\ \A j \in 1..Len(analysis.node_analyses) :
                    scan_data.nodes[i].issues = scan_data.nodes[j].issues
                    => analysis.node_analyses[i].risk_level
                          = analysis.node_analyses[j].risk_level

C21_Witness ==
    /\ Analyzed
    /\ Len(analysis.node_analyses) = 2
    /\ scan_data.nodes[1].issues = <<OutdatedIssue>>
    /\ analysis.node_analyses[1].risk_level = "medium"
    /\ scan_data.nodes[2].issues = <<OpenReadonlyIssue, OutdatedIssue>>
    /\ analysis.node_analyses[2].risk_level = "high"

\* C22: the recommendations hold the anonymous-auth line at most once and the
\* readonly-port line at most once.
C22_Deduplicated ==
    Analyzed =>
        /\ Occurrences(analysis.recommendations, ANONYMOUS_LINE) <= 1
        /\ Occurrences(analysis.recommendations, READONLY_LINE) <= 1

\* where a line stands in the order of the recommendations
Rank(line) ==
    CASE line = ANONYMOUS_LINE -> 1
      [] line = READONLY_LINE -> 2
      [] line = REVIEW_LINE -> 3
      [] line = EXPOSURE_LINE -> 4
      [] line = ALL_CLEAR_LINE -> 5
      [] OTHER -> 0

\* the report holds a critical risk
HasCriticalRisk == Len(Get(Get(scan_data, "summary", <<>>), "critical_issues", <<>>)) > 0

\* C23: anonymous-auth lines come before readonly-port lines, which come
\* before the two general lines; the general lines are there exactly when the
\* report has a critical risk, and the all-clear line exactly when it has
\* none, as the only entry.
C23_RecommendationOrder ==
    Analyzed =>
        LET recs == analysis.recommendations
        IN  /\ \A i \in 1..Len(recs) : Rank(recs[i]) \in 1..5
            /\ \A i, j \in 1..Len(recs) : i < j => Rank(recs[i]) <= Rank(recs[j])
            /\ Occurrences(recs, REVIEW_LINE) = (IF HasCriticalRisk THEN 1 ELSE 0)
            /\ Occurrences(recs, EXPOSURE_LINE) = (IF HasCriticalRisk THEN 1 ELSE 0)
            /\ Occurrences(recs, ALL_CLEAR_LINE) = (IF HasCriticalRisk THEN 0 ELSE 1)
            /\ ~HasCriticalRisk => recs = <<ALL_CLEAR_LINE>>

C23_Witness ==
    /\ Analyzed
    /\ HasCriticalRisk
    /\ analysis.recommendations
          = <<ANONYMOUS_LINE, ANONYMOUS_LINE, READONLY_LINE, REVIEW_LINE, EXPOSURE_LINE>>

\* the AI step ran and did not complete
AiFailed == ai_outcome # None /\ ai_outcome[1] # "completed"

\* what analyze_results returns for the report when AI is disabled
DisabledAnalysis ==
    LET nodes == Get(scan_data, "nodes", <<>>)
        withNodes == [NewAnalysis(scan_data) EXCEPT !.node_analyses =
                         [i \in 1..Len(nodes) |-> analyze_node(nodes[i])]]
        withLines == [withNodes EXCEPT !.recommendations =
                         generate_recommendations(withNodes)]
    IN  Update(withLines, [ai_insights |-> None])

\* C24: a failure of the AI step never fails analyze_results: it returns the
\* analysis of the AI-disabled run, with ai_insights None, and the run goes on
\* to the report; the AI collaborator is called at most once.
C24_AiFailureContained ==
    /\ ai_calls <= 1
    /\ ~openai_enabled => ai_calls = 0
    /\ AiFailed =>
          /\ Analyzed
          /\ analysis = DisabledAnalysis
          /\ analysis.ai_insights = None
          /\ rpc = "done" => status_text # None

C24_Witness ==
    /\ ai_outcome = Some("RateLimitError")
    /\ ai_calls = 1
    /\ rpc = "done"
    /\ exit_code = Some(0)
    /\ Len(analysis.node_analyses) > 0

-----------------------------------------------------------------------------
(* Status and node count of a finished scan (checked under Spec) *)

\* every node of the inventory has its report in results.nodes
AllFolded == idx = Len(inventory) + 1 /\ Len(results.nodes) = Len(inventory)

\* C25: the status exists only once the last node has been folded; in a scan
\* that ends without a top-level error it is CRITICAL when critical_issues is
\* non-empty, else WARNING when warnings is non-empty, else HEALTHY, and
\* summary.total_nodes is the number of node reports in nodes.
C25_StatusAfterLastNode ==
    /\ HasStatus => (Done /\ ~HasError /\ AllFolded)
    /\ (Done /\ ~HasError) =>
          /\ HasStatus
          /\ AllFolded
          /\ results.summary.total_nodes = Len(results.nodes)
          /\ results.status =
                IF ~NoCritical THEN "CRITICAL"
                ELSE IF ~NoWarnings THEN "WARNING"
                ELSE "HEALTHY"

C25_Witness ==
    /\ Done
    /\ StatusIs("HEALTHY")
    /\ results.summary.total_nodes = 2
    /\ Len(results.nodes) = 2

-----------------------------------------------------------------------------
(* Order of the entries of a node report (checked under SpecInspect) *)

ISSUE_ORDER ==
    <<"anonymous_access_enabled", "readonly_port_enabled",
      "authorization_mode_alwaysallow", "metrics_endpoint_accessible",
      "version_vulnerable">>

PASSED_ORDER ==
    <<"authentication_required", "readonly_port_disabled",
      "authorization_mode_secure", "metrics_endpoint_secured",
      "version_secure">>

\* the positions of x in seq
PositionsIn(seq, x) == {i \in 1..Len(seq) : seq[i] = x}

\* seq is a subsequence of order in which nothing is repeated
SubsequenceOf(seq, order) ==
    /\ \A i \in 1..Len(seq) : Cardinality(PositionsIn(order, seq[i])) = 1
    /\ \A i, j \in 1..Len(seq) :
          i < j => \A a \in PositionsIn(order, seq[i]),
                      b \in PositionsIn(order, seq[j]) : a < b

\* C26: the issue types of a node report form a subsequence, without
\* repetition, of the five issue types in the order of the rows, and its
\* passed-check tags one of the five tags in the same order.
C26_RowOrder ==
    Inspection =>
        /\ SubsequenceOf(IssueTypes, ISSUE_ORDER)
        /\ SubsequenceOf(PassedTags, PASSED_ORDER)

C26_Witness ==
    /\ Inspection
    /\ Len(IssueTypes) >= 2
    /\ IssueTypes[Len(IssueTypes)] = "version_vulnerable"
    /\ Len(PassedTags) >= 2

-----------------------------------------------------------------------------
(* Report of a node without an internal address (checked under SpecInspect) *)

\* C27: the report of a node without an internal address has no issue derived
\* from a probe and neither authentication_required nor
\* authorization_mode_secure, but it has readonly_port_disabled and
\* metrics_endpoint_secured; with the entry of the version row, these are its
\* only entries.
C27_UnprobedNodeReport ==
    (Inspection /\ NoInternalAddress) =>
        /\ IssueTypes \in {<<>>, <<"version_vulnerable">>}
        /\ PassedTags \in
              {<<"readonly_port_disabled", "metrics_endpoint_secured">>,
               <<"readonly_port_disabled", "metrics_endpoint_secured",
                 "version_secure">>}
        /\ Len(IssueTypes) + Len(PassedTags) <= 3

C27_Witness ==
    /\ Inspection
    /\ NoInternalAddress
    /\ IssueTypes = <<"version_vulnerable">>
    /\ PassedTags = <<"readonly_port_disabled", "metrics_endpoint_secured">>

-----------------------------------------------------------------------------
(* Severities the scanner produces (checked under Spec) *)

\* the node reports folded so far that hold a critical issue
NodesWithCritical ==
    {i \in 1..Len(results.nodes) :
        CountSeverity(results.nodes[i].issues, "CRITICAL") > 0}

\* C28: every issue the scanner produces is CRITICAL: summary.warnings stays
\* empty, the status, when present, is CRITICAL or HEALTHY and never WARNING,
\* nodes_with_issues is the number of nodes with a critical issue, and the
\* analysis of a scanned node is never of medium risk.
C28_OnlyCritical ==
    /\ \A i \in 1..Len(results.nodes) :
          /\ \A k \in 1..Len(results.nodes[i].issues) :
                results.nodes[i].issues[k].severity = "CRITICAL"
          /\ analyze_node(results.nodes[i]).risk_level \in {"high", "low"}
    /\ results.summary.warnings = <<>>
    /\ HasStatus => results.status \in {"CRITICAL", "HEALTHY"}
    /\ results.summary.nodes_with_issues = Cardinality(NodesWithCritical)

C28_Witness ==
    /\ Done
    /\ StatusIs("CRITICAL")
    /\ Len(results.nodes) = 2
    /\ Cardinality(NodesWithCritical) = 1
    /\ \E i \in 1..2 : Len(results.nodes[i].issues) >= 2

-----------------------------------------------------------------------------
(* Status shown in Slack (checked under SpecReport) *)

\* the run reports what scan_kubelet_config returned (scan mode)
ScanMode == scan_data \in ScannerReports

\* C29: in scan mode the status text of the Slack report is HEALTHY only if
\* the status of the ScanReport is HEALTHY; a report with a top-level error
\* is never shown as HEALTHY.
C29_HealthyOnlyIfHealthy ==
    (ScanMode /\ status_text = Some("HEALTHY")) =>
        /\ "status" \in DOMAIN scan_data
        /\ scan_data.status = "HEALTHY"
        /\ "error" \notin DOMAIN scan_data

-----------------------------------------------------------------------------
(* Sidecar: run_sidecar_mode and SlackNotifier.monitor_for_scan_output *)

\* notifier.py line 141
CHECK_INTERVAL == 5

\* values of kubernetes.max_wait_time
WaitTimes == {0, 4, 10, 12}

\* what time.sleep(check_interval) and one pass of the loop may take
SleepTimes == {CHECK_INTERVAL, CHECK_INTERVAL + 1}

\* what the results file may hold: a JSON text cut short, a JSON array, or
\* the JSON object of a ScanReport
FileContents == {"truncated", "array", "report"}

\* notifier.py lines 146-174: the file is loaded, analyzed and sent; any
\* exception ends the call with None
ProcessResults(content, send) ==
    IF content = "truncated"
    THEN [result |-> None, sent |-> 0]
    ELSE IF content = "array"
    THEN [result |-> None, sent |-> 0]
    ELSE IF send = "response"
    THEN [result |-> Some("response"), sent |-> 1]
    ELSE [result |-> None, sent |-> 0]

\* the exit code that does not look at the result
SidecarExitAlwaysZero(success) == 0

\* app.py lines 84-89
SidecarExit(success) == IF success # None THEN 0 ELSE 1

SidecarInit ==
    /\ spc = "startup"
    /\ elapsed = 0
    /\ max_wait_time \in WaitTimes
    /\ results_file \in {None} \cup {Some(c) : c \in FileContents}
    /\ reports_sent = 0
    /\ polls = 0
    /\ monitor_result = None
    /\ sidecar_exit = None

\* app.py lines 71-74 and 91-93: the startup notification; start_time is
\* taken when monitor_for_scan_output is entered
StartupMessage ==
    /\ spc = "startup"
    /\ \E outcome \in SendOutcomes :
          IF outcome = "response"
          THEN spc' = "poll" /\ sidecar_exit' = sidecar_exit
          ELSE spc' = "exit" /\ sidecar_exit' = Some(1)
    /\ UNCHANGED <<elapsed, max_wait_time, results_file, reports_sent, polls,
                   monitor_result>>
    /\ UNCHANGED <<scanVars, inspectVars, compareVars, versionVars, reportVars>>

\* the scanner container writes the results file
WriteResultsFile ==
    /\ spc \in {"startup", "poll"}
    /\ results_file = None
    /\ \E c \in FileContents : results_file' = Some(c)
    /\ UNCHANGED <<spc, elapsed, max_wait_time, reports_sent, polls,
                   monitor_result, sidecar_exit>>
    /\ UNCHANGED <<scanVars, inspectVars, compareVars, versionVars, reportVars>>

\* notifier.py lines 142-143 and 176: the file is not there, sleep
Sleep ==
    /\ spc = "poll"
    /\ elapsed < max_wait_time
    /\ results_file = None
    /\ \E t \in SleepTimes : elapsed' = elapsed + t
    /\ polls' = polls + 1
    /\ UNCHANGED <<spc, max_wait_time, results_file, reports_sent,
                   monitor_result, sidecar_exit>>
    /\ UNCHANGED <<scanVars, inspectVars, compareVars, versionVars, reportVars>>

\* notifier.py lines 142-174: the file is there
ProcessFile ==
    /\ spc = "poll"
    /\ elapsed < max_wait_time
    /\ results_file # None
    /\ \E send \in SendOutcomes :
          LET done == ProcessResults(results_file[1], send)
          IN  /\ monitor_result' = done.result
              /\ reports_sent' = reports_sent + done.sent
    /\ polls' = polls + 1
    /\ spc' = "returned"
    /\ UNCHANGED <<elapsed, max_wait_time, results_file, sidecar_exit>>
    /\ UNCHANGED <<scanVars, inspectVars, compareVars, versionVars, reportVars>>

\* notifier.py lines 142 and 178-179: the wait is over
Timeout ==
    /\ spc = "poll"
    /\ ~(elapsed < max_wait_time)
    /\ monitor_result' = None
    /\ spc' = "returned"
    /\ UNCHANGED <<elapsed, max_wait_time, results_file, reports_sent, polls,
                   sidecar_exit>>
    /\ UNCHANGED <<scanVars, inspectVars, compareVars, versionVars, reportVars>>

\* app.py lines 84-89
ReturnExitCode ==
    /\ spc = "returned"
    /\ sidecar_exit' = Some(SidecarExit(monitor_result))
    /\ spc' = "exit"
    /\ UNCHANGED <<elapsed, max_wait_time, results_file, reports_sent, polls,
                   monitor_result>>
    /\ UNCHANGED <<scanVars, inspectVars, compareVars, versionVars, reportVars>>

InitSidecar == ScanIdle /\ InspectIdle /\ CompareIdle /\ VersionIdle
               /\ ReportIdle /\ SidecarInit

\* the steps of the sidecar process itself
SidecarStep ==
    \/ StartupMessage
    \/ Sleep
    \/ ProcessFile
    \/ Timeout
    \/ ReturnExitCode

NextSidecar ==
    \/ SidecarStep
    \/ WriteResultsFile

SpecSidecar == InitSidecar /\ [][NextSidecar]_vars

\* the sidecar is a single thread that keeps running; nothing is assumed
\* about when, or whether, the results file is written
FairSpecSidecar == SpecSidecar /\ WF_vars(SidecarStep)

-----------------------------------------------------------------------------
(* Properties of the sidecar (checked under FairSpecSidecar) *)

Returned == spc \in {"returned", "exit"}
Exited == spc = "exit"

\* what holds in every state of a sidecar run
SidecarSafe ==
    /\ reports_sent <= 1
    /\ sidecar_exit # None <=> Exited
    /\ (Returned /\ polls > 0) => (monitor_result # None <=> reports_sent = 1)
    /\ (Returned /\ monitor_result = None /\ results_file = None /\ polls > 0)
          => elapsed >= max_wait_time
    /\ Exited => (sidecar_exit = Some(0) <=> reports_sent = 1)

\* a file that is seen in time is processed at once, and the call returns
ProcessedAtOnce ==
    (spc = "poll" /\ results_file # None /\ elapsed < max_wait_time)
        => (spc' = "returned" /\ polls' = polls + 1 /\ elapsed' = elapsed)

\* nothing is polled or sent after the call has returned
NoPollAfterReturn ==
    Returned => (polls' = polls /\ reports_sent' = reports_sent
                 /\ monitor_result' = monitor_result)

\* C30: monitor_for_scan_output always terminates and sends at most one
\* report: it processes the results file the first time it sees it and
\* returns at once (the result of the send, or None if loading, analysis or
\* sending raised, without polling again), or returns None once
\* max_wait_time has elapsed; run_sidecar_mode returns 0 exactly when a
\* report was sent.
C30_SidecarTerminates ==
    /\ []SidecarSafe
    /\ [][ProcessedAtOnce /\ NoPollAfterReturn]_vars
    /\ <>Exited

C30_Witness ==
    /\ Exited
    /\ sidecar_exit = Some(0)
    /\ reports_sent = 1
    /\ polls = 2
    /\ elapsed > 0

=============================================================================
